---- MODULE Spec2Model ----
(***************************************************************************)
(* Availability discovery of streamportal: the probe primitive             *)
(* (app/utils.py check_url_exists_async), the episode resolver             *)
(* (app/utils.py check_season_episodes_async) and the season aggregator    *)
(* (app/series.py search_series_data_async).                               *)
(*                                                                         *)
(* Spec      one call of search_series_data_async: the series-level gate,  *)
(*           the concurrent season resolvers, their concurrent episode     *)
(*           probes, and the assembly of the result.  Every interleaving   *)
(*           of the completions of the outstanding units is a behaviour.   *)
(* SpecSeason one call of check_season_episodes_async for one season.       *)
(* SpecProbe one call of check_url_exists_async against one URL.           *)
(* SpecFixed two calls of search_series_data_async against a mirror whose  *)
(*           answers are fixed per URL.                                    *)
(* SpecSearch one call of search_movies / search_series (app/movies.py,    *)
(*           app/series.py): the concurrent page fetches and the list.     *)
(* SpecMovie one /details request for a movie (app/main.py get_details,    *)
(*           app/movies.py get_movie_details).                             *)
(* SpecApi   one request to /details (movie or series) or one search.      *)
(***************************************************************************)
EXTENDS Integers, Sequences, FiniteSets, TLC

(***************************************************************************)
(* Sizes.  The code's ceilings are 10 seasons (series.py:203) and 20       *)
(* episodes (utils.py:51); the model runs the same code with smaller       *)
(* ceilings so that every interleaving can be enumerated.                  *)
(***************************************************************************)
SeasonCeiling == 2
EpisodeCeiling == 3
\* number_of_seasons ranges over 0..SeasonCeiling + ExtraDeclared
ExtraDeclared == 1
\* a catalog search page lists 0..MaxItems entries
MaxItems == 2

MaxDeclared == SeasonCeiling + ExtraDeclared
\* JSON null where the catalog is meant to send a season count
Null == -1
\* every season number a request could name
Seasons == 1..MaxDeclared
\* the content ids a request is made for
ContentIds == {1}

(***************************************************************************)
(* What one GET can end with: an HTTP status, or an exception raised       *)
(* inside session.get.  TimeoutError and ClientError are subclasses of     *)
(* Exception; CancelledError is a BaseException only.                      *)
(***************************************************************************)
StatusCodes == {200, 204, 404, 500}
Status(c) == [kind |-> "status", code |-> c, exc |-> "none"]
Raises(x) == [kind |-> "raise", code |-> 0, exc |-> x]
ExceptionClasses == {"TimeoutError", "ClientError"}
BaseExceptionClasses == ExceptionClasses \cup {"CancelledError"}
Responses == {Status(c) : c \in StatusCodes} \cup {Raises(x) : x \in BaseExceptionClasses}
NoResponse == [kind |-> "none", code |-> 0, exc |-> "none"]

\* f"https://vixsrc.to/tv/{series_id}/{season}/{ep}"
TvUrl(series_id, season, ep) ==
    [host |-> "vixsrc.to", path |-> "tv", id |-> series_id, season |-> season, episode |-> ep]
\* f"https://vixsrc.to/movie/{movie_id}"
MovieUrl(movie_id) ==
    [host |-> "vixsrc.to", path |-> "movie", id |-> movie_id, season |-> 0, episode |-> 0]

(***************************************************************************)
(* check_url_exists_async: what the caller gets for a response.            *)
(* "True" / "False" are the returned booleans; any other value is the      *)
(* class of the exception that leaves the coroutine: `except Exception`    *)
(* catches TimeoutError and ClientError, not CancelledError.               *)
(***************************************************************************)
\* faulty variant: any 2xx status counts as existing
check_url_exists_async_any_2xx(resp) ==
    IF resp.kind = "status"
    THEN (IF resp.code >= 200 /\ resp.code < 300 THEN "True" ELSE "False")
    ELSE IF resp.exc \in ExceptionClasses THEN "False" ELSE resp.exc

check_url_exists_async(resp) ==
    IF resp.kind = "status"
    THEN (IF resp.code = 200 THEN "True" ELSE "False")
    ELSE IF resp.exc \in ExceptionClasses THEN "False" ELSE resp.exc

\* what a completed probe hands to the coroutine awaiting it, over every response
ProbeOutcomes == {check_url_exists_async(r) : r \in Responses}

(***************************************************************************)
(* Python helpers                                                          *)
(***************************************************************************)
Min(a, b) == IF a <= b THEN a ELSE b

\* range(a, b) as a list
RECURSIVE Range(_, _)
Range(a, b) == IF a >= b THEN <<>> ELSE <<a>> \o Range(a + 1, b)

\* sorted(list) of integers: insertion sort
RECURSIVE Insert(_, _)
Insert(x, s) ==
    IF s = <<>> THEN <<x>>
    ELSE IF x <= Head(s) THEN <<x>> \o s
    ELSE <<Head(s)>> \o Insert(x, Tail(s))

\* faulty variant: the list is returned as it was appended to
unsorted(s) == s

RECURSIVE sorted(_)
sorted(s) == IF s = <<>> THEN <<>> ELSE Insert(Head(s), sorted(Tail(s)))

\* faulty variant: `if result:`
is_truthy(result) == result # "False"

\* `result is True`; an exception object in a result slot is not True (but is truthy)
is_True(result) == result = "True"

\* max_episodes=20, the default of check_season_episodes_async
default_max_episodes == EpisodeCeiling

VARIABLES
    series,          \* the catalog record: [id, number_of_seasons]
    agg_pc,          \* position of search_series_data_async
    gate_ret,        \* what each gate probe returned to its caller; index 0 is the series-level gate
    launched,        \* how many times the resolver of each season was launched
    res_pc,          \* position of each check_season_episodes_async
    results,         \* per season: the result slots of the gather over the episode probes
    season_results,  \* the result slots of the gather over the season resolvers
    gets,            \* the GETs issued, per issuer (0 = aggregator, s = resolver of season s), in order
    done_order,      \* the seasons in the order their resolvers completed
    valid_seasons,
    valid_episodes,
    streaming_urls,
    probe_pc,        \* SpecProbe: position of the single check_url_exists_async call
    probe_url,
    probe_resp,
    probe_ret,
    probe_gets,
    mirror,          \* the answers the mirror is bound to give: (season, episode) -> exists; empty = unconstrained
    run,             \* which call of the aggregator on this series is running: 1 or 2
    prev_result,     \* what the previous call of the aggregator returned
    search_kind,     \* "Movie" (search_movies) or "Series" (search_series)
    search_pc,       \* position of the search function
    page_gets,       \* the pages a fetch was issued for, in order
    page_results,    \* the result slots of the gather over the page fetches
    out_of_order,    \* a page fetch completed while a lower-numbered page was still outstanding
    page_fate,       \* per page, how its GET ended: "ok", "status", "transport", "CancelledError"
    search_list,     \* movies_list / series_list as returned
    search_exc,      \* the exception that left the search function
    det_kind,        \* /details: "Movie" (get_movie_details) or "Series" (get_series_details)
    det_id,          \* content_id of the request
    det_pc,          \* position of get_movie_details / get_series_details
    catalog_gets,    \* the catalog GETs issued by the details function
    catalog_resp,    \* what the catalog GET ended with
    det_exc,         \* the exception that left the details function
    details,         \* the record the details function returned
    handler_pc,      \* position of the /details handler
    http,            \* the HTTP response of the request
    now,             \* the reading of time.time(), in ticks
    requests,        \* RateLimiter.requests: client_ip -> the times of the requests that count
    decision,        \* the latest call of the rate limiting middleware and its outcome
    allowed_log,     \* per client, the times of the requests the limiter allowed in the last `window` ticks
    refused_at,      \* per client, the time of its latest request if that one was refused
    req,             \* the request: endpoint, client and the fields of its JSON body
    front_pc,        \* position of the request before its handler calls search or details
    TMDB_API_KEY,    \* os.getenv("TMDB_API_KEY")
    call_kind,       \* SpecSessions: per concurrent call, "search" or "details"
    call_pc,         \* per call, its position
    call_session,    \* per call, the ClientSession it uses (0 = none yet)
    call_slots,      \* per search call, the result slots of its page fetches
    sessions,        \* the ClientSession objects created so far: owner, state, who closed it
    san_pc,          \* SpecSanitize: position of the single sanitize_input call
    san_text,        \* its argument `text`
    san_ret,         \* what it returned
    pool_pc,         \* SpecPool: position of the single check_season_episodes call
    pool_gate,       \* what check_url_exists returned for the first episode
    pool_futures,    \* per submitted future (episode i + 1), "pending" or what its probe returned
    pool_yielded,    \* the episodes whose future as_completed has yielded, in that order
    pool_valid,      \* valid_episodes of the call, as appended
    pool_ret         \* what the call returned

aggVars == <<series, agg_pc, gate_ret, launched, res_pc, results, season_results,
             gets, done_order, valid_seasons, valid_episodes, streaming_urls>>
probeVars == <<probe_pc, probe_url, probe_resp, probe_ret, probe_gets>>
worldVars == <<mirror, run, prev_result>>
searchVars == <<search_kind, search_pc, page_gets, page_results, out_of_order, page_fate,
                search_list, search_exc>>
detVars == <<det_kind, det_id, det_pc, catalog_gets, catalog_resp, det_exc, details,
             handler_pc, http>>
limiterVars == <<now, requests, decision, allowed_log, refused_at>>
reqVars == <<req, front_pc, TMDB_API_KEY>>
sessVars == <<call_kind, call_pc, call_session, call_slots, sessions>>
sanVars == <<san_pc, san_text, san_ret>>
poolVars == <<pool_pc, pool_gate, pool_futures, pool_yielded, pool_valid, pool_ret>>
frontVars == <<limiterVars, reqVars, sessVars, sanVars, poolVars>>
vars == <<aggVars, probeVars, worldVars, searchVars, detVars, frontVars>>
outsideAgg == <<probeVars, worldVars, searchVars, detVars, frontVars>>
outsideProbe == <<aggVars, worldVars, searchVars, detVars, frontVars>>
outsideSearch == <<aggVars, probeVars, worldVars, detVars, frontVars>>
outsideLimiter == <<aggVars, probeVars, worldVars, searchVars, detVars, reqVars, sessVars,
                    sanVars, poolVars>>
outsideSessions == <<aggVars, probeVars, worldVars, searchVars, detVars, limiterVars, reqVars,
                     sanVars, poolVars>>
outsideSanitize == <<aggVars, probeVars, worldVars, searchVars, detVars, limiterVars, reqVars,
                     sessVars, poolVars>>
outsidePool == <<aggVars, probeVars, worldVars, searchVars, detVars, limiterVars, reqVars,
                 sessVars, sanVars>>

Issuers == {0} \cup Seasons

Pending == [type |-> "pending", value |-> <<>>]
NotLaunched == [type |-> "none", value |-> <<>>]
ListResult(l) == [type |-> "list", value |-> l]
RaisedResult(x) == [type |-> x, value |-> <<>>]

\* the mirror's answer to a GET of a URL it is bound for: 200 when the page exists, else 404
mirror_response(url) ==
    IF mirror[<<url.season, url.episode>>] THEN Status(200) ELSE Status(404)

\* what `await check_url_exists_async(session, url)` can give its caller
probe_outcomes(url) ==
    IF <<url.season, url.episode>> \in DOMAIN mirror
    THEN {check_url_exists_async(mirror_response(url))}
    ELSE ProbeOutcomes

(***************************************************************************)
(* check_season_episodes_async                                             *)
(***************************************************************************)
\* faulty variant: range(1, max_episodes + 2)
episode_urls_one_more(series_id, season, max_episodes) ==
    LET eps == Range(1, max_episodes + 2)
    IN  [i \in 1..Len(eps) |-> TvUrl(series_id, season, eps[i])]

\* episode_urls = [f".../tv/{series_id}/{season}/{ep}" for ep in range(1, max_episodes + 1)]
episode_urls(series_id, season, max_episodes) ==
    LET eps == Range(1, max_episodes + 1)
    IN  [i \in 1..Len(eps) |-> TvUrl(series_id, season, eps[i])]

\* faulty variant: the loop breaks at the first result that is not True
RECURSIVE collect_until_gap(_, _, _)
collect_until_gap(res, i, acc) ==
    IF i >= Len(res) \/ ~ (res[i + 1] = "True") THEN acc
    ELSE collect_until_gap(res, i + 1, Append(acc, i + 1))

\* for i, result in enumerate(results): if result is True: valid_episodes.append(i + 1)
\* (i is Python's 0-based index; results[i] is the TLA+ element i + 1)
RECURSIVE collect_episodes(_, _, _)
collect_episodes(res, i, acc) ==
    IF i >= Len(res) THEN acc
    ELSE collect_episodes(res, i + 1,
                          IF is_True(res[i + 1]) THEN Append(acc, i + 1) ELSE acc)

\* faulty variant: the fan-out runs whatever the first-episode probe returned
first_episode_absent_ignored(ret) == FALSE

\* `if not await check_url_exists_async(session, first_episode_url): return []`
first_episode_absent(ret) == ret = "False"

\* faulty variant: the seasons are resolved whatever the series-level probe returned
not_available_ignored(ret) == FALSE

\* `if not is_available: return [], {}, []` (series.py:189)
not_available(ret) == ret = "False"

\* the probe's exception left the awaiting coroutine
raised(ret) == ret \notin {"True", "False"}

\* the value check_season_episodes_async returns after its gather
resolver_return(res) == sorted(collect_episodes(res, 0, <<>>))

\* faulty variant: asyncio.wait(tasks, return_when=FIRST_COMPLETED)
gather_first_completed(slots) == \E i \in 1..Len(slots) : slots[i] # "pending"

\* `await asyncio.gather(*tasks, return_exceptions=True)` resumes when no task is outstanding
gather_complete(slots) == \A i \in 1..Len(slots) : slots[i] # "pending"

(***************************************************************************)
(* search_series_data_async                                                *)
(***************************************************************************)
\* faulty variant: no ceiling
total_seasons_unclamped(s) == s.number_of_seasons

\* total_seasons = min(series.get("number_of_seasons", 0), 10)
total_seasons(s) == Min(s.number_of_seasons, SeasonCeiling)

\* min(None, 10) raises TypeError
min_raises(s) == s.number_of_seasons = Null

\* faulty variant: the pairs in completion order (as_completed)
enumerate_in_completion_order(sr, n, order) ==
    [i \in 1..n |-> <<order[i], sr[order[i]]>>]

\* enumerate(season_results, 1): the (season, episodes) pairs in launch order,
\* whatever the order in which the resolvers completed
enumerate_season_results(sr, n, order) ==
    [i \in 1..n |-> <<i, sr[i]>>]

\* isinstance(episodes, Exception): CancelledError is not an Exception
isinstance_Exception(episodes) == episodes.type \in ExceptionClasses

\* faulty variant: `isinstance(episodes, list)`
any_list(episodes) == episodes.type = "list"

\* faulty variant: `if episodes:` (an exception object is truthy)
truthy(episodes) == episodes.type # "list" \/ episodes.value # <<>>

\* `episodes and isinstance(episodes, list)`
nonempty_list(episodes) == episodes.type = "list" /\ episodes.value # <<>>

\* faulty variant: the append sits after the inner loop
season_urls_last_only(series_id, season, episodes) ==
    <<TvUrl(series_id, season, episodes[Len(episodes)])>>

\* for episode in episodes: streaming_urls.append(f".../tv/{series_id}/{season}/{episode}")
season_urls(series_id, season, episodes) ==
    [j \in 1..Len(episodes) |-> TvUrl(series_id, season, episodes[j])]

\* the loop of lines 221-239 over the pairs, from pair k on
RECURSIVE assemble(_, _, _, _)
assemble(pairs, k, series_id, acc) ==
    IF k > Len(pairs) THEN acc
    ELSE LET season == pairs[k][1]
             episodes == pairs[k][2]
         IN  IF isinstance_Exception(episodes) THEN assemble(pairs, k + 1, series_id, acc)
             ELSE IF nonempty_list(episodes)
             THEN assemble(pairs, k + 1, series_id,
                    [vs |-> Append(acc.vs, season),
                     ve |-> [x \in (DOMAIN acc.ve) \cup {season} |->
                                IF x = season THEN episodes.value ELSE acc.ve[x]],
                     su |-> acc.su \o season_urls(series_id, season, episodes.value)])
             ELSE assemble(pairs, k + 1, series_id, acc)

\* the three values returned before any season is examined
EmptyResult == [vs |-> <<>>, ve |-> <<>>, su |-> <<>>]

\* faulty variant: the three containers outlive the call (module-level lists)
fresh_result_reused(left_over) == left_over

\* lines 210-212: valid_seasons = [], valid_episodes = {}, streaming_urls = [] are new in every call
fresh_result(left_over) == EmptyResult

\* the mirror's answers are not bound, and no call came before this one
FirstCall ==
    /\ mirror = <<>>
    /\ run = 1
    /\ prev_result = EmptyResult

IdleAgg ==
    /\ agg_pc = "init"
    /\ gate_ret = [i \in Issuers |-> "none"]
    /\ launched = [s \in Seasons |-> 0]
    /\ res_pc = [s \in Seasons |-> "idle"]
    /\ results = [s \in Seasons |-> <<>>]
    /\ season_results = [s \in Seasons |-> NotLaunched]
    /\ gets = [i \in Issuers |-> <<>>]
    /\ done_order = <<>>
    /\ valid_seasons = <<>>
    /\ valid_episodes = <<>>
    /\ streaming_urls = <<>>

\* search_series_data_async is not called
NoAggCall ==
    /\ agg_pc = "none"
    /\ gate_ret = [i \in Issuers |-> "none"]
    /\ launched = [s \in Seasons |-> 0]
    /\ res_pc = [s \in Seasons |-> "idle"]
    /\ results = [s \in Seasons |-> <<>>]
    /\ season_results = [s \in Seasons |-> NotLaunched]
    /\ gets = [i \in Issuers |-> <<>>]
    /\ done_order = <<>>
    /\ valid_seasons = <<>>
    /\ valid_episodes = <<>>
    /\ streaming_urls = <<>>

IdleProbe ==
    /\ probe_pc = "idle"
    /\ probe_url = MovieUrl(0)
    /\ probe_resp = NoResponse
    /\ probe_ret = "none"
    /\ probe_gets = <<>>

\* the body of a catalog answer: `complete` says that every field the record is
\* built from by indexing (original_title / original_name, ...) is present
CatalogBody(id, n, complete) ==
    [json |-> TRUE, id |-> id, number_of_seasons |-> n, complete |-> complete]
\* a body response.json() cannot decode
Undecodable == [json |-> FALSE, id |-> 0, number_of_seasons |-> 0, complete |-> FALSE]

CatalogStatus(c, body) == [kind |-> "status", code |-> c, exc |-> "none", body |-> body]
CatalogRaises(x) == [kind |-> "raise", code |-> 0, exc |-> x, body |-> Undecodable]
NoCatalogResponse == [kind |-> "none", code |-> 0, exc |-> "none", body |-> Undecodable]

\* no exception / the exceptions of errors.py as (class, status_code, error_code)
NoException == [class |-> "none", status_code |-> 0, error_code |-> "none"]
NotFoundError == [class |-> "NotFoundError", status_code |-> 404, error_code |-> "NOT_FOUND_ERROR"]
ExternalAPIError(status_code) ==
    [class |-> "ExternalAPIError", status_code |-> status_code, error_code |-> "EXTERNAL_API_ERROR"]
\* an exception that is not a StreamPortalError
Builtin(x) == [class |-> x, status_code |-> 0, error_code |-> "none"]

NoUrl == [host |-> "none", path |-> "none", id |-> 0, season |-> 0, episode |-> 0]
NoDetails ==
    [id |-> 0, is_available |-> FALSE, url |-> NoUrl,
     valid_seasons |-> <<>>, valid_episodes |-> <<>>, streaming_urls |-> <<>>]
\* a response: its status, the error code of its body, and the top-level key of its body
NoHttp == [status |-> 0, code |-> "none", body |-> "none"]

\* no details request is running
IdleDetails ==
    /\ det_kind = "none"
    /\ det_id = 0
    /\ det_pc = "idle"
    /\ catalog_gets = <<>>
    /\ catalog_resp = NoCatalogResponse
    /\ det_exc = NoException
    /\ details = NoDetails
    /\ handler_pc = "idle"
    /\ http = NoHttp

\* no search is running
IdleSearch ==
    /\ search_kind = "none"
    /\ search_pc = "idle"
    /\ page_gets = <<>>
    /\ page_results = <<>>
    /\ out_of_order = FALSE
    /\ page_fate = <<>>
    /\ search_list = <<>>
    /\ search_exc = "none"

\* the ticks the clock can show, and "never"
MaxTime == 6
NoTime == -1
\* the client addresses get_client_ip can return
ClientIps == {"a", "b"}

NoDecision ==
    [client |-> "none", at |-> 0, allowed |-> FALSE, allowed_before |-> 0,
     refused_before |-> NoTime, status |-> 0, code |-> "none", retry_after |-> 0]

\* a fresh RateLimiter: no request was seen
IdleLimiter ==
    /\ now = 0
    /\ requests = <<>>
    /\ decision = NoDecision
    /\ allowed_log = [c \in ClientIps |-> <<>>]
    /\ refused_at = [c \in ClientIps |-> NoTime]

\* a field of a JSON body: absent, a string, or an integer
Missing == [kind |-> "missing", text |-> <<>>, value |-> 0]
StrField(text) == [kind |-> "str", text |-> text, value |-> 0]
IntField(value) == [kind |-> "int", text |-> <<>>, value |-> value]

\* the environment variable is unset
NoKey == ""

\* no request is in front of a handler
IdleRequest ==
    /\ req = [endpoint |-> "none", client |-> "none", text_search |-> Missing,
              content_id |-> Missing, type_of_content |-> Missing]
    /\ front_pc = "idle"
    /\ TMDB_API_KEY = "key"

\* the calls that run concurrently in SpecSessions
Calls == {1, 2}

\* no concurrent calls are looked at
IdleSessions ==
    /\ call_kind = [r \in Calls |-> "none"]
    /\ call_pc = [r \in Calls |-> "idle"]
    /\ call_session = [r \in Calls |-> 0]
    /\ call_slots = [r \in Calls |-> <<>>]
    /\ sessions = <<>>

\* sanitize_input is not being called
IdleSanitize ==
    /\ san_pc = "idle"
    /\ san_text = <<>>
    /\ san_ret = <<>>

\* check_season_episodes is not being called
IdlePool ==
    /\ pool_pc = "idle"
    /\ pool_gate = "none"
    /\ pool_futures = <<>>
    /\ pool_yielded = <<>>
    /\ pool_valid = <<>>
    /\ pool_ret = <<>>

IdleFront == IdleLimiter /\ IdleRequest /\ IdleSessions /\ IdleSanitize /\ IdlePool

Init ==
    /\ series \in [id : ContentIds, number_of_seasons : 0..MaxDeclared]
    /\ IdleAgg
    /\ IdleProbe
    /\ IdleSearch
    /\ IdleDetails
    /\ IdleFront
    /\ FirstCall

\* line 185-188: the call, up to the await of the series-level probe
AggStart ==
    /\ agg_pc = "init"
    /\ agg_pc' = "gate"
    /\ gets' = [gets EXCEPT ![0] = Append(@, TvUrl(series.id, 1, 1))]
    /\ UNCHANGED <<series, gate_ret, launched, res_pc, results, season_results,
                   done_order, valid_seasons, valid_episodes, streaming_urls>>
    /\ UNCHANGED outsideAgg

\* faulty variant: the first-episode probe is issued a second time
resolver_first_get_twice(g, series_id, season) ==
    Append(Append(g, TvUrl(series_id, season, 1)), TvUrl(series_id, season, 1))

\* the resolver of `season`, from its call to the await of its first-episode probe (lines 53-55)
resolver_first_get(g, series_id, season) ==
    Append(g, TvUrl(series_id, season, 1))

\* lines 188-219: the series-level probe returns; on True the season resolvers are launched
SeriesGateReturn ==
    /\ agg_pc = "gate"
    /\ \E ret \in probe_outcomes(TvUrl(series.id, 1, 1)) :
         LET n == total_seasons(series)
         IN  /\ gate_ret' = [gate_ret EXCEPT ![0] = ret]
             /\ IF ~ raised(ret) /\ ~ not_available(ret) /\ ~ min_raises(series)
                THEN /\ agg_pc' = "gather"
                     /\ launched' = [s \in Seasons |->
                                       IF s \in 1..n THEN launched[s] + 1 ELSE launched[s]]
                     /\ res_pc' = [s \in Seasons |-> IF s \in 1..n THEN "gate" ELSE res_pc[s]]
                     /\ season_results' = [s \in Seasons |->
                                       IF s \in 1..n THEN Pending ELSE season_results[s]]
                     /\ gets' = [i \in Issuers |->
                                       IF i \in 1..n THEN resolver_first_get(gets[i], series.id, i)
                                       ELSE gets[i]]
                ELSE /\ agg_pc' = IF raised(ret) \/ ~ not_available(ret) THEN "raised" ELSE "done"
                     /\ UNCHANGED <<launched, res_pc, season_results, gets>>
    /\ UNCHANGED <<series, results, done_order, valid_seasons, valid_episodes, streaming_urls>>
    /\ UNCHANGED outsideAgg

\* lines 55-63 of utils.py: the first-episode probe of season s returns
SeasonGateReturn(s) ==
    /\ res_pc[s] = "gate"
    /\ \E ret \in probe_outcomes(TvUrl(series.id, s, 1)) :
         LET urls == episode_urls(series.id, s, default_max_episodes)
         IN  /\ gate_ret' = [gate_ret EXCEPT ![s] = ret]
             /\ IF ~ raised(ret) /\ ~ first_episode_absent(ret)
                THEN /\ res_pc' = [res_pc EXCEPT ![s] = "gather"]
                     /\ results' = [results EXCEPT ![s] = [i \in 1..Len(urls) |-> "pending"]]
                     /\ gets' = [gets EXCEPT ![s] = @ \o urls]
                     /\ UNCHANGED <<season_results, done_order>>
                ELSE /\ res_pc' = [res_pc EXCEPT ![s] = "done"]
                     /\ season_results' = [season_results EXCEPT ![s] =
                            IF raised(ret) THEN RaisedResult(ret) ELSE ListResult(<<>>)]
                     /\ done_order' = Append(done_order, s)
                     /\ UNCHANGED <<results, gets>>
    /\ UNCHANGED <<series, agg_pc, launched, valid_seasons, valid_episodes, streaming_urls>>
    /\ UNCHANGED outsideAgg

\* one episode probe of season s completes
EpisodeProbeReturn(s, i) ==
    /\ res_pc[s] = "gather"
    /\ i \in 1..Len(results[s])
    /\ results[s][i] = "pending"
    /\ \E ret \in probe_outcomes(episode_urls(series.id, s, default_max_episodes)[i]) :
         results' = [results EXCEPT ![s][i] = ret]
    /\ UNCHANGED <<series, agg_pc, gate_ret, launched, res_pc, season_results, gets,
                   done_order, valid_seasons, valid_episodes, streaming_urls>>
    /\ UNCHANGED outsideAgg

\* lines 63-68 of utils.py: the gather of season s is complete; the resolver returns
SeasonCollect(s) ==
    /\ res_pc[s] = "gather"
    /\ gather_complete(results[s])
    /\ res_pc' = [res_pc EXCEPT ![s] = "done"]
    /\ season_results' = [season_results EXCEPT ![s] = ListResult(resolver_return(results[s]))]
    /\ done_order' = Append(done_order, s)
    /\ UNCHANGED <<series, agg_pc, gate_ret, launched, results, gets,
                   valid_seasons, valid_episodes, streaming_urls>>
    /\ UNCHANGED outsideAgg

\* the season resolvers the aggregator is waiting for
awaited_seasons == {s \in Seasons : launched[s] > 0}

\* faulty variant: the aggregator waits until every season has produced a list
seasons_complete_all_lists(sr, awaited) == \A s \in Seasons : sr[s].type = "list"

\* faulty variant: gather without return_exceptions resumes at the first exception
seasons_complete_or_failed(sr, awaited) ==
    \/ \A s \in awaited : sr[s].type # "pending"
    \/ \E s \in awaited : sr[s].type \notin {"pending", "list"}

\* `await asyncio.gather(*season_tasks, return_exceptions=True)` (series.py:219) resumes
\* when no resolver is outstanding
seasons_complete(sr, awaited) == \A s \in awaited : sr[s].type # "pending"

\* lines 219-250: the gather over the seasons is complete; the result is assembled
AggCollect ==
    /\ agg_pc = "gather"
    /\ seasons_complete(season_results, awaited_seasons)
    /\ LET n == Cardinality(awaited_seasons)
           r == assemble(enumerate_season_results(season_results, n, done_order),
                         1, series.id, fresh_result(prev_result))
       IN  /\ valid_seasons' = r.vs
           /\ valid_episodes' = r.ve
           /\ streaming_urls' = r.su
    /\ agg_pc' = "done"
    /\ UNCHANGED <<series, gate_ret, launched, res_pc, results, season_results, gets, done_order>>
    /\ UNCHANGED outsideAgg

Next ==
    \/ AggStart
    \/ SeriesGateReturn
    \/ \E s \in Seasons : SeasonGateReturn(s)
    \/ \E s \in Seasons : \E i \in 1..Len(results[s]) : EpisodeProbeReturn(s, i)
    \/ \E s \in Seasons : SeasonCollect(s)
    \/ AggCollect

Spec == Init /\ [][Next]_vars

(***************************************************************************)
(* SpecSeason: one call of check_season_episodes_async(session, series_id, *)
(* season), up to the await of its first-episode probe; its steps are the  *)
(* resolver steps of Spec.                                                 *)
(***************************************************************************)
InitSeason ==
    /\ series \in [id : ContentIds, number_of_seasons : {0}]
    /\ \E season \in Seasons :
         /\ launched = [s \in Seasons |-> IF s = season THEN 1 ELSE 0]
         /\ res_pc = [s \in Seasons |-> IF s = season THEN "gate" ELSE "idle"]
         /\ season_results = [s \in Seasons |-> IF s = season THEN Pending ELSE NotLaunched]
         /\ gets = [i \in Issuers |->
                      IF i = season THEN resolver_first_get(<<>>, series.id, season) ELSE <<>>]
    /\ agg_pc = "none"
    /\ gate_ret = [i \in Issuers |-> "none"]
    /\ results = [s \in Seasons |-> <<>>]
    /\ done_order = <<>>
    /\ valid_seasons = <<>>
    /\ valid_episodes = <<>>
    /\ streaming_urls = <<>>
    /\ IdleProbe
    /\ IdleSearch
    /\ IdleDetails
    /\ IdleFront
    /\ FirstCall

NextSeason ==
    \/ \E s \in Seasons : SeasonGateReturn(s)
    \/ \E s \in Seasons : \E i \in 1..Len(results[s]) : EpisodeProbeReturn(s, i)
    \/ \E s \in Seasons : SeasonCollect(s)

SpecSeason == InitSeason /\ [][NextSeason]_vars

(***************************************************************************)
(* SpecFixed: the aggregator is called twice on one series while the       *)
(* mirror gives every URL one fixed answer.                                *)
(***************************************************************************)
\* the fixed answers of the mirror for the URLs of one series
MirrorMaps == [(1..SeasonCeiling) \X (1..EpisodeCeiling) -> BOOLEAN]

InitFixed ==
    /\ series \in [id : ContentIds, number_of_seasons : 0..MaxDeclared]
    /\ IdleAgg
    /\ IdleProbe
    /\ IdleSearch
    /\ IdleDetails
    /\ IdleFront
    /\ mirror \in MirrorMaps
    /\ run = 1
    /\ prev_result = EmptyResult

\* the first call returned; search_series_data_async is called again for the same series
CallAgain ==
    /\ agg_pc = "done"
    /\ run = 1
    /\ run' = 2
    /\ prev_result' = [vs |-> valid_seasons, ve |-> valid_episodes, su |-> streaming_urls]
    /\ agg_pc' = "init"
    /\ gate_ret' = [i \in Issuers |-> "none"]
    /\ launched' = [s \in Seasons |-> 0]
    /\ res_pc' = [s \in Seasons |-> "idle"]
    /\ results' = [s \in Seasons |-> <<>>]
    /\ season_results' = [s \in Seasons |-> NotLaunched]
    /\ gets' = [i \in Issuers |-> <<>>]
    /\ done_order' = <<>>
    /\ valid_seasons' = <<>>
    /\ valid_episodes' = <<>>
    /\ streaming_urls' = <<>>
    /\ UNCHANGED <<series, mirror>>
    /\ UNCHANGED <<probeVars, searchVars, detVars, frontVars>>

NextFixed ==
    \/ Next
    \/ CallAgain

SpecFixed == InitFixed /\ [][NextFixed]_vars

(***************************************************************************)
(* SpecProbe: one call of check_url_exists_async                           *)
(***************************************************************************)
\* the URLs the probe is called with
ProbeUrls ==
    {MovieUrl(m) : m \in ContentIds} \cup
    {TvUrl(c, s, e) : c \in ContentIds, s \in Seasons, e \in 1..EpisodeCeiling}

InitProbe ==
    /\ series = [id |-> 0, number_of_seasons |-> 0]
    /\ IdleAgg
    /\ probe_pc = "call"
    /\ probe_url \in ProbeUrls
    /\ probe_resp = NoResponse
    /\ probe_ret = "none"
    /\ probe_gets = <<>>
    /\ IdleSearch
    /\ IdleDetails
    /\ IdleFront
    /\ FirstCall

\* session.get(url, timeout=aiohttp.ClientTimeout(total=3)) is issued
ProbeGet ==
    /\ probe_pc = "call"
    /\ probe_pc' = "awaiting"
    /\ probe_gets' = Append(probe_gets, probe_url)
    /\ UNCHANGED <<probe_url, probe_resp, probe_ret>>
    /\ UNCHANGED outsideProbe

\* the GET ends: a status arrives, or session.get raises
ProbeRespond ==
    /\ probe_pc = "awaiting"
    /\ \E resp \in Responses : probe_resp' = resp
    /\ probe_pc' = "responded"
    /\ UNCHANGED <<probe_url, probe_ret, probe_gets>>
    /\ UNCHANGED outsideProbe

\* return response.status == 200 / except Exception: return False
ProbeReturn ==
    /\ probe_pc = "responded"
    /\ probe_ret' = check_url_exists_async(probe_resp)
    /\ probe_pc' = IF raised(check_url_exists_async(probe_resp)) THEN "raised" ELSE "returned"
    /\ UNCHANGED <<probe_url, probe_resp, probe_gets>>
    /\ UNCHANGED outsideProbe

NextProbe ==
    \/ ProbeGet
    \/ ProbeRespond
    \/ ProbeReturn

SpecProbe == InitProbe /\ [][NextProbe]_vars

(***************************************************************************)
(* SpecSearch: one call of search_movies or of search_series.  The page    *)
(* fetches run concurrently; each completes on its own with whatever the   *)
(* catalog answers for its page.                                           *)
(***************************************************************************)
\* for page in range(1, 6) (movies.py:28)
movie_pages == 5
\* for page in range(1, 4) (series.py:24)
series_pages == 3

SearchKinds == {"Movie", "Series"}

\* the number of pages a search of this kind asks for
pages_of(kind) == IF kind = "Movie" THEN movie_pages ELSE series_pages

\* one entry of a page: `required` says that every field the loop indexes (id,
\* original_title / original_name, ...) is present
Item(page, i, required) ==
    [id |-> 10 * page + i, required |-> required, poster_path |-> i % 2 = 1]

\* the JSON bodies the catalog can send for a page: n entries of which entry
\* `bad` lacks a required field (0 = none does), or a body without "results"
PageBodies(page) ==
    {[results_key |-> TRUE, results |-> [i \in 1..n |-> Item(page, i, i # bad)]] :
        n \in 0..MaxItems, bad \in 0..MaxItems}
    \cup {[results_key |-> FALSE, results |-> <<>>]}

NoBody == [results_key |-> FALSE, results |-> <<>>]

PageStatus(c, body) == [kind |-> "status", code |-> c, exc |-> "none", body |-> body]
PageRaises(x) == [kind |-> "raise", code |-> 0, exc |-> x, body |-> NoBody]

\* what the GET of one page can end with
PageResponses(page) ==
    {PageStatus(200, b) : b \in PageBodies(page)}
    \cup {PageStatus(c, NoBody) : c \in StatusCodes \ {200}}
    \cup {PageRaises(x) : x \in BaseExceptionClasses}

PagePending == [type |-> "pending", body |-> NoBody]
\* {"results": []}
EmptyPage == [type |-> "dict", body |-> [results_key |-> TRUE, results |-> <<>>]]

\* faulty variant: the page fetch has no `except Exception`, a transport error ends the task
fetch_page_unguarded(resp) ==
    IF resp.kind = "status"
    THEN (IF resp.code # 200 THEN EmptyPage ELSE [type |-> "dict", body |-> resp.body])
    ELSE [type |-> resp.exc, body |-> NoBody]

\* fetch_movie_page / fetch_series_page: the value the task of one page ends with
fetch_page(resp) ==
    IF resp.kind = "status"
    THEN (IF resp.code # 200 THEN EmptyPage ELSE [type |-> "dict", body |-> resp.body])
    ELSE IF resp.exc \in ExceptionClasses THEN EmptyPage
    ELSE [type |-> resp.exc, body |-> NoBody]

\* how the GET of a page ended: with status 200, with another status, with a
\* transport error, or by the cancellation of the task
fate(resp) ==
    IF resp.kind = "status" THEN (IF resp.code = 200 THEN "ok" ELSE "status")
    ELSE IF resp.exc \in ExceptionClasses THEN "transport" ELSE resp.exc

\* display_movie_poster / display_series_poster
display_poster(kind, item) ==
    IF item.poster_path THEN "image.tmdb.org/t/p/w500"
    ELSE IF kind = "Movie" THEN "No poster found" ELSE "via.placeholder.com/200x300.png"

\* the dict appended for one entry of a page
list_entry(kind, item) == [id |-> item.id, poster |-> display_poster(kind, item)]

\* `isinstance(page_data, dict) and page_data.get("results")`
has_results(page_data) ==
    page_data.type = "dict" /\ page_data.body.results_key /\ page_data.body.results # <<>>

\* faulty variant: movies_list.insert(0, ...)
list_prepend(list, entries) == entries \o list

\* movies_list.append(...) for every entry of the page, in page order
list_append(list, entries) == list \o entries

\* the loop over enumerate(page_results, 1), from page k on: `list` is the list
\* built so far, `exc` the exception that ended the loop
RECURSIVE process_pages(_, _, _, _)
process_pages(kind, pages, k, acc) ==
    IF k > Len(pages) \/ acc.exc # "none" THEN acc
    ELSE IF pages[k].type \in ExceptionClasses THEN process_pages(kind, pages, k + 1, acc)
    ELSE IF has_results(pages[k])
    THEN LET items == pages[k].body.results
             bad == {i \in 1..Len(items) : ~ items[i].required}
             upto == IF bad = {} THEN Len(items)
                     ELSE (CHOOSE i \in bad : \A j \in bad : i <= j) - 1
         IN  process_pages(kind, pages, k + 1,
                [list |-> list_append(acc.list,
                                      [i \in 1..upto |-> list_entry(kind, items[i])]),
                 exc |-> IF bad = {} THEN "none" ELSE "KeyError"])
    ELSE process_pages(kind, pages, k + 1, acc)

InitSearch ==
    /\ series = [id |-> 0, number_of_seasons |-> 0]
    /\ NoAggCall
    /\ IdleProbe
    /\ IdleDetails
    /\ IdleFront
    /\ FirstCall
    /\ search_kind \in SearchKinds
    /\ search_pc = "init"
    /\ page_gets = <<>>
    /\ page_results = <<>>
    /\ out_of_order = FALSE
    /\ page_fate = <<>>
    /\ search_list = <<>>
    /\ search_exc = "none"

\* the loop that builds `tasks` and the gather that starts them
SearchStart ==
    /\ search_pc = "init"
    /\ search_pc' = "gather"
    /\ page_gets' = Range(1, pages_of(search_kind) + 1)
    /\ page_results' = [p \in 1..pages_of(search_kind) |-> PagePending]
    /\ page_fate' = [p \in 1..pages_of(search_kind) |-> "outstanding"]
    /\ UNCHANGED <<search_kind, out_of_order, search_list, search_exc>>
    /\ UNCHANGED outsideSearch

\* the task of page p completes
PageReturn(p) ==
    /\ search_pc = "gather"
    /\ p \in 1..Len(page_results)
    /\ page_results[p] = PagePending
    /\ \E resp \in PageResponses(p) :
         /\ page_results' = [page_results EXCEPT ![p] = fetch_page(resp)]
         /\ page_fate' = [page_fate EXCEPT ![p] = fate(resp)]
    /\ out_of_order' = (out_of_order \/ \E q \in 1..(p - 1) : page_results[q] = PagePending)
    /\ UNCHANGED <<search_kind, search_pc, page_gets, search_list, search_exc>>
    /\ UNCHANGED outsideSearch

\* `await asyncio.gather(*tasks, return_exceptions=True)` resumes when no page task is outstanding
pages_complete(slots) == \A p \in 1..Len(slots) : slots[p] # PagePending

\* the gather is complete; the pages are processed and the list is returned
SearchCollect ==
    /\ search_pc = "gather"
    /\ pages_complete(page_results)
    /\ LET r == process_pages(search_kind, page_results, 1, [list |-> <<>>, exc |-> "none"])
       IN  /\ search_exc' = r.exc
           /\ search_list' = IF r.exc = "none" THEN r.list ELSE <<>>
           /\ search_pc' = IF r.exc = "none" THEN "done" ELSE "raised"
    /\ UNCHANGED <<search_kind, page_gets, page_results, out_of_order, page_fate>>
    /\ UNCHANGED outsideSearch

NextSearch ==
    \/ SearchStart
    \/ \E p \in 1..Len(page_results) : PageReturn(p)
    \/ SearchCollect

SpecSearch == InitSearch /\ [][NextSearch]_vars

(***************************************************************************)
(* SpecLimiter: the rate limiting middleware in front of every request.    *)
(* The clock is read in ticks; the limit of 60 requests and the 60 seconds *)
(* of the window are scaled down to requests_per_minute and window.        *)
(***************************************************************************)
\* RateLimiter(requests_per_minute=60), scaled down
requests_per_minute == 2
\* the 60 seconds of `current_time - req_time < 60` and of retry_after, scaled down to ticks
window == 3

\* faulty variant: `current_time - req_time <= 60`
recent_inclusive(list, current_time) ==
    SelectSeq(list, LAMBDA req_time : current_time - req_time <= window)

\* [req_time for req_time in self.requests[client_ip] if current_time - req_time < 60]
recent(list, current_time) ==
    SelectSeq(list, LAMBDA req_time : current_time - req_time < window)

\* faulty variant: `len(self.requests[client_ip]) > self.requests_per_minute`
over_limit_off_by_one(list) == Len(list) > requests_per_minute

\* len(self.requests[client_ip]) >= self.requests_per_minute
over_limit(list) == Len(list) >= requests_per_minute

\* faulty variant: the time of the request is appended before the limit is looked at
is_allowed_counting_refused(reqs, client_ip, current_time) ==
    LET kept == IF client_ip \in DOMAIN reqs THEN recent(reqs[client_ip], current_time)
                ELSE <<>>
    IN  [allowed |-> ~ over_limit(kept), list |-> Append(kept, current_time)]

\* RateLimiter.is_allowed: the answer, and the list it leaves for the client
is_allowed(reqs, client_ip, current_time) ==
    LET kept == IF client_ip \in DOMAIN reqs THEN recent(reqs[client_ip], current_time)
                ELSE <<>>
    IN  IF over_limit(kept) THEN [allowed |-> FALSE, list |-> kept]
        ELSE [allowed |-> TRUE, list |-> Append(kept, current_time)]

InitLimiter ==
    /\ series = [id |-> 0, number_of_seasons |-> 0]
    /\ NoAggCall
    /\ IdleProbe
    /\ IdleSearch
    /\ IdleDetails
    /\ FirstCall
    /\ IdleSanitize
    /\ IdlePool
    /\ IdleLimiter
    /\ IdleRequest
    /\ IdleSessions

\* time passes
Tick ==
    /\ now < MaxTime
    /\ now' = now + 1
    /\ allowed_log' = [c \in ClientIps |->
                          SelectSeq(allowed_log[c], LAMBDA t : now' - t < window)]
    /\ UNCHANGED <<requests, decision, refused_at>>
    /\ UNCHANGED outsideLimiter

\* rate_limit_middleware for a request of client c: the request is refused with
\* 429 or handed on to call_next
RateLimit(c) ==
    /\ LET r == is_allowed(requests, c, now)
       IN  /\ requests' = (c :> r.list) @@ requests
           /\ decision' = [client |-> c, at |-> now, allowed |-> r.allowed,
                           allowed_before |-> Len(allowed_log[c]),
                           refused_before |-> refused_at[c],
                           status |-> IF r.allowed THEN 0 ELSE 429,
                           code |-> IF r.allowed THEN "none" ELSE "RATE_LIMIT_ERROR",
                           retry_after |-> IF r.allowed THEN 0 ELSE window]
           /\ allowed_log' = IF r.allowed
                             THEN [allowed_log EXCEPT ![c] = Append(@, now)]
                             ELSE allowed_log
           /\ refused_at' = [refused_at EXCEPT ![c] = IF r.allowed THEN NoTime ELSE now]
    /\ UNCHANGED now
    /\ UNCHANGED outsideLimiter

NextLimiter ==
    \/ Tick
    \/ \E c \in ClientIps : RateLimit(c)

SpecLimiter == InitLimiter /\ [][NextLimiter]_vars

(***************************************************************************)
(* SpecApi: one request to the API.  A /details request runs               *)
(* get_movie_details or get_series_details: the catalog GET, then the      *)
(* availability check (one probe for a movie, the aggregator of Spec for a *)
(* series), then the record; the handler turns the outcome into the HTTP   *)
(* response.  A /search request runs the search of SpecSearch.  Before its *)
(* handler calls either, the request passes the rate limiting middleware,  *)
(* the construction of its request model from the JSON body, and           *)
(* get_headers.                                                            *)
(***************************************************************************)
CatalogStatusCodes == {200, 204, 401, 404, 500}
\* status_code: int = 502, the default of ExternalAPIError (errors.py:101)
default_status_code == 502

\* what the catalog GET of a details request can end with
CatalogResponses(id) ==
    {CatalogStatus(200, CatalogBody(id, n, c)) :
        n \in {Null} \cup (0..MaxDeclared), c \in BOOLEAN}
    \cup {CatalogStatus(200, Undecodable)}
    \cup {CatalogStatus(c, Undecodable) : c \in CatalogStatusCodes \ {200}}
    \cup {CatalogRaises(x) : x \in BaseExceptionClasses}

\* faulty variant: response.status is not handed to ExternalAPIError
catalog_outcome_default_status(resp) ==
    IF resp.kind = "status"
    THEN (IF resp.code = 404 THEN NotFoundError
          ELSE IF resp.code # 200 THEN ExternalAPIError(default_status_code)
          ELSE IF ~ resp.body.json THEN ExternalAPIError(default_status_code)
          ELSE NoException)
    ELSE IF resp.exc \in ExceptionClasses THEN ExternalAPIError(default_status_code)
    ELSE Builtin(resp.exc)

\* faulty variant: only 404 is looked at, any other status is read as a record
catalog_outcome_404_only(resp) ==
    IF resp.kind = "status"
    THEN (IF resp.code = 404 THEN NotFoundError ELSE NoException)
    ELSE IF resp.exc \in ExceptionClasses THEN ExternalAPIError(default_status_code)
    ELSE Builtin(resp.exc)

\* the first try block of get_movie_details / get_series_details: the exception
\* it raises for a catalog response, NoException when movie_data / series_data is set
catalog_outcome(resp) ==
    IF resp.kind = "status"
    THEN (IF resp.code = 404 THEN NotFoundError
          ELSE IF resp.code # 200 THEN ExternalAPIError(resp.code)
          ELSE IF ~ resp.body.json THEN ExternalAPIError(default_status_code)
          ELSE NoException)
    ELSE IF resp.exc \in ExceptionClasses THEN ExternalAPIError(default_status_code)
    ELSE Builtin(resp.exc)

\* faulty variant: `except aiohttp.ClientError`
except_ClientError(x) == x = "ClientError"

\* `except Exception` around the availability check: CancelledError is not an Exception
except_Exception(x) == x # "CancelledError"

\* faulty variant: "url": url_to_check
movie_url_always(url_to_check, is_available) == url_to_check

\* "url": url_to_check if is_available else None
movie_url(url_to_check, is_available) == IF is_available THEN url_to_check ELSE NoUrl

\* the exception that left search_series_data_async: the one of the series-level
\* probe, or the TypeError of min()
agg_exception == IF raised(gate_ret[0]) THEN gate_ret[0] ELSE "TypeError"

StreamPortalErrors ==
    {"NotFoundError", "ExternalAPIError", "ValidationError", "AuthenticationError"}

ValidationError ==
    [class |-> "ValidationError", status_code |-> 400, error_code |-> "VALIDATION_ERROR"]
AuthenticationError ==
    [class |-> "AuthenticationError", status_code |-> 401,
     error_code |-> "AUTHENTICATION_ERROR"]

\* faulty variant: the `except Exception` of the handler wraps every exception
handler_except_wraps_all(exc) == ExternalAPIError(default_status_code)

\* the `except Exception as e` of search and get_details: the exception that leaves
\* the handler for an exception e of the search or details function
handler_except(exc) ==
    IF exc.class \in StreamPortalErrors THEN exc ELSE ExternalAPIError(default_status_code)

\* streamportal_error_handler with handle_streamportal_error, and
\* generic_error_handler with handle_generic_exception
exception_handler(exc) ==
    IF exc.class \in StreamPortalErrors
    THEN [status |-> exc.status_code, code |-> exc.error_code, body |-> "error"]
    ELSE [status |-> 500, code |-> "INTERNAL_ERROR", body |-> "error"]

\* the response for an exception of the search or details function
error_response(exc) == exception_handler(handler_except(exc))

DetailsKinds == {"Movie", "Series"}

InitDetails ==
    /\ series = [id |-> 0, number_of_seasons |-> 0]
    /\ NoAggCall
    /\ IdleProbe
    /\ IdleSearch
    /\ IdleFront
    /\ FirstCall
    /\ det_kind \in DetailsKinds
    /\ det_id \in ContentIds
    /\ det_pc = "init"
    /\ catalog_gets = <<>>
    /\ catalog_resp = NoCatalogResponse
    /\ det_exc = NoException
    /\ details = NoDetails
    /\ handler_pc = "awaiting"
    /\ http = NoHttp

\* the details function is entered and issues the catalog GET
DetailsStart ==
    /\ det_pc = "init"
    /\ det_pc' = "catalog"
    /\ catalog_gets' = Append(catalog_gets, [kind |-> det_kind, id |-> det_id])
    /\ UNCHANGED <<det_kind, det_id, catalog_resp, det_exc, details, handler_pc, http>>
    /\ UNCHANGED <<aggVars, probeVars, worldVars, searchVars, frontVars>>

\* the catalog GET ends; on a record the availability check is started: the probe of
\* the movie URL (movies.py:127-129) or search_series_data_async (series.py:111)
CatalogReturn ==
    /\ det_pc = "catalog"
    /\ \E resp \in CatalogResponses(det_id) :
         /\ catalog_resp' = resp
         /\ IF catalog_outcome(resp) = NoException
            THEN /\ det_pc' = "availability"
                 /\ det_exc' = det_exc
                 /\ IF det_kind = "Movie"
                    THEN /\ probe_pc' = "call"
                         /\ probe_url' = MovieUrl(det_id)
                         /\ UNCHANGED <<series, agg_pc>>
                    ELSE /\ series' = [id |-> resp.body.id,
                                       number_of_seasons |-> resp.body.number_of_seasons]
                         /\ agg_pc' = "init"
                         /\ UNCHANGED <<probe_pc, probe_url>>
            ELSE /\ det_pc' = "raised"
                 /\ det_exc' = catalog_outcome(resp)
                 /\ UNCHANGED <<series, agg_pc, probe_pc, probe_url>>
    /\ UNCHANGED <<det_kind, det_id, catalog_gets, details, handler_pc, http>>
    /\ UNCHANGED <<gate_ret, launched, res_pc, results, season_results, gets, done_order,
                   valid_seasons, valid_episodes, streaming_urls>>
    /\ UNCHANGED <<probe_resp, probe_ret, probe_gets>>
    /\ UNCHANGED <<worldVars, searchVars, frontVars>>

\* lines 128-177 of movies.py: the probe of the movie URL is over; the record is built
MovieProbed ==
    /\ det_pc = "availability"
    /\ det_kind = "Movie"
    /\ probe_pc \in {"returned", "raised"}
    /\ LET is_available == IF probe_pc = "raised" THEN FALSE ELSE probe_ret = "True"
       IN  IF probe_pc = "raised" /\ ~ except_Exception(probe_ret)
           THEN /\ det_pc' = "raised"
                /\ det_exc' = Builtin(probe_ret)
                /\ UNCHANGED details
           ELSE IF ~ catalog_resp.body.complete
           THEN /\ det_pc' = "raised"
                /\ det_exc' = Builtin("KeyError")
                /\ UNCHANGED details
           ELSE /\ det_pc' = "returned"
                /\ details' = [id |-> catalog_resp.body.id,
                               is_available |-> is_available,
                               url |-> movie_url(MovieUrl(det_id), is_available),
                               valid_seasons |-> <<>>,
                               valid_episodes |-> <<>>,
                               streaming_urls |-> <<>>]
                /\ UNCHANGED det_exc
    /\ UNCHANGED <<det_kind, det_id, catalog_gets, catalog_resp, handler_pc, http>>
    /\ UNCHANGED <<aggVars, probeVars, worldVars, searchVars, frontVars>>

\* lines 112-164 of series.py: search_series_data_async is over; the record is built
SeriesAggregated ==
    /\ det_pc = "availability"
    /\ det_kind = "Series"
    /\ agg_pc \in {"done", "raised"}
    /\ LET caught == agg_pc = "raised" /\ except_Exception(agg_exception)
           vs == IF caught THEN <<>> ELSE valid_seasons
           ve == IF caught THEN <<>> ELSE valid_episodes
           su == IF caught THEN <<>> ELSE streaming_urls
       IN  IF agg_pc = "raised" /\ ~ caught
           THEN /\ det_pc' = "raised"
                /\ det_exc' = Builtin(agg_exception)
                /\ UNCHANGED details
           ELSE IF ~ catalog_resp.body.complete
           THEN /\ det_pc' = "raised"
                /\ det_exc' = Builtin("KeyError")
                /\ UNCHANGED details
           ELSE /\ det_pc' = "returned"
                /\ details' = [id |-> catalog_resp.body.id,
                               is_available |-> Len(vs) > 0,
                               url |-> NoUrl,
                               valid_seasons |-> vs,
                               valid_episodes |-> ve,
                               streaming_urls |-> su]
                /\ UNCHANGED det_exc
    /\ UNCHANGED <<det_kind, det_id, catalog_gets, catalog_resp, handler_pc, http>>
    /\ UNCHANGED <<aggVars, probeVars, worldVars, searchVars, frontVars>>

\* main.py 237-271 and 116-122: the handler answers; a CancelledError passes its
\* `except Exception` and the request ends without a response
HandlerRespond ==
    /\ handler_pc = "awaiting"
    /\ det_pc \in {"returned", "raised"}
    /\ IF det_pc = "returned"
       THEN /\ http' = [status |-> 200, code |-> "none", body |-> "details"]
            /\ handler_pc' = "responded"
       ELSE IF except_Exception(det_exc.class)
       THEN /\ http' = error_response(det_exc)
            /\ handler_pc' = "responded"
       ELSE /\ handler_pc' = "cancelled"
            /\ UNCHANGED http
    /\ UNCHANGED <<det_kind, det_id, det_pc, catalog_gets, catalog_resp, det_exc, details>>
    /\ UNCHANGED <<aggVars, probeVars, worldVars, searchVars, frontVars>>

NextDetails ==
    \/ DetailsStart
    \/ CatalogReturn
    \/ ProbeGet
    \/ ProbeRespond
    \/ ProbeReturn
    \/ MovieProbed
    \/ Next
    \/ SeriesAggregated
    \/ HandlerRespond

\* one /details request for a movie
InitMovie == InitDetails /\ det_kind = "Movie"

NextMovie ==
    \/ DetailsStart
    \/ CatalogReturn
    \/ ProbeGet
    \/ ProbeRespond
    \/ ProbeReturn
    \/ MovieProbed
    \/ HandlerRespond

SpecMovie == InitMovie /\ [][NextMovie]_vars

\* str.replace(old, ""): every occurrence of `old`, found from the left, is removed
RECURSIVE str_remove(_, _)
str_remove(s, old) ==
    LET found == {i \in 1..(Len(s) - Len(old) + 1) : SubSeq(s, i, i + Len(old) - 1) = old}
    IN  IF found = {} THEN s
        ELSE LET i == CHOOSE x \in found : \A y \in found : x <= y
             IN  SubSeq(s, 1, i - 1) \o str_remove(SubSeq(s, i + Len(old), Len(s)), old)

\* str.strip(): the text from its first to its last character that is not a blank
strip(s) ==
    LET inked == {i \in 1..Len(s) : s[i] # " "}
    IN  IF inked = {} THEN <<>>
        ELSE SubSeq(s, CHOOSE i \in inked : \A j \in inked : i <= j,
                       CHOOSE i \in inked : \A j \in inked : i >= j)

\* dangerous_chars = ["<", ">", '"', "'", "&", "script", "javascript"]
dangerous_chars ==
    << <<"<">>, <<">">>, <<"\"">>, <<"'">>, <<"&">>, <<"s", "c", "r", "i", "p", "t">>,
       <<"j", "a", "v", "a", "s", "c", "r", "i", "p", "t">> >>

\* `for char in dangerous_chars: sanitized = sanitized.replace(char, "")`, from
\* entry k on; the quantifiers here and below bind a text that has been computed
RECURSIVE remove_dangerous(_, _)
remove_dangerous(text, k) ==
    IF k > Len(dangerous_chars) THEN text
    ELSE CHOOSE r \in {remove_dangerous(str_remove(sanitized, dangerous_chars[k]), k + 1) :
                        sanitized \in {text}} : TRUE

\* sanitize_input
sanitize_input(text) ==
    IF text = <<>> THEN <<>>
    ELSE CHOOSE r \in {strip(sanitized) : sanitized \in {remove_dangerous(text, 1)}} : TRUE

\* validate_search_query raises ValidationError
validate_search_query(query) ==
    \/ query = <<>> \/ strip(query) = <<>>
    \/ Len(strip(query)) < 2
    \/ Len(query) > 100

\* validate_content_id raises ValidationError, for a value that passed `content_id: int`
validate_content_id(content_id) == content_id <= 0

TypeMovie == <<"M", "o", "v", "i", "e">>
\* allowed_types = ["Movie", "Series"]
allowed_types == {TypeMovie, <<"S", "e", "r", "i", "e", "s">>}
\* validate_content_type raises ValidationError
validate_content_type(content_type) == content_type \notin allowed_types

\* faulty variant: the validator of a field returns the value without validating it
validator_raises_never(field, raises) == FALSE

\* a @validator of a request model: the ValidationError of validate_* leaves the
\* model; a field that is absent or ill-typed has no validator run
validator_raises(field, raises) == field.kind # "missing" /\ raises

\* SearchRequest(**body) / DetailsRequest(**body): the fields are taken in the
\* order of their declaration; "raise" when a validator raised, "unprocessable"
\* when a required field is absent or has the wrong type, else "ok"
parse_body(r) ==
    LET first == IF r.endpoint = "search" THEN r.text_search ELSE r.content_id
        first_typed == first.kind = (IF r.endpoint = "search" THEN "str" ELSE "int")
        first_raises ==
            IF r.endpoint = "search"
            THEN validator_raises(first, first_typed
                                         /\ \E sanitized \in {sanitize_input(first.text)} :
                                              validate_search_query(sanitized))
            ELSE validator_raises(first, first_typed /\ validate_content_id(first.value))
        second_typed == r.type_of_content.kind = "str"
        second_raises ==
            validator_raises(r.type_of_content,
                             second_typed /\ validate_content_type(r.type_of_content.text))
    IN  IF first_raises \/ second_raises THEN "raise"
        ELSE IF ~ first_typed \/ ~ second_typed THEN "unprocessable"
        ELSE "ok"

\* faulty variant: the headers are built without looking at TMDB_API_KEY
get_headers_unchecked(key) == FALSE

\* get_headers raises AuthenticationError
get_headers(key) == key = NoKey

\* the text_search values of the requests: empty, blank, one character, one
\* character between dangerous ones, a valid query between dangerous characters
\* and blanks, and 101 characters
QueryInputs ==
    {<<>>, <<" ">>, <<"a">>, <<"<", "a", ">">>, <<" ", "<", "a", "b", ">", " ">>,
     [i \in 1..101 |-> "a"]}

\* the requests a client can send
ApiRequests ==
    {[endpoint |-> "search", client |-> "a", text_search |-> q, content_id |-> Missing,
      type_of_content |-> t] :
        q \in {Missing} \cup {StrField(x) : x \in QueryInputs},
        t \in {Missing} \cup {StrField(x) : x \in allowed_types \cup {<<"m", "o", "v", "i", "e">>}}}
    \cup
    {[endpoint |-> "details", client |-> "a", text_search |-> Missing, content_id |-> c,
      type_of_content |-> t] :
        c \in {Missing, StrField(<<"a", "b", "c">>)}
              \cup {IntField(v) : v \in ContentIds \cup {0, -1}},
        t \in {Missing} \cup {StrField(x) : x \in allowed_types \cup {<<"m", "o", "v", "i", "e">>}}}

\* a request arrives at a server whose limiter has seen nothing of the client
\* or has just allowed requests_per_minute requests of it
InitApi ==
    /\ series = [id |-> 0, number_of_seasons |-> 0]
    /\ NoAggCall
    /\ IdleProbe
    /\ IdleSearch
    /\ IdleDetails
    /\ FirstCall
    /\ req \in ApiRequests
    /\ now = 0
    /\ requests \in {<<>>, [c \in {req.client} |-> [i \in 1..requests_per_minute |-> 0]]}
    /\ decision = NoDecision
    /\ allowed_log = [c \in ClientIps |-> IF c \in DOMAIN requests THEN requests[c] ELSE <<>>]
    /\ refused_at = [c \in ClientIps |-> NoTime]
    /\ front_pc = "received"
    /\ TMDB_API_KEY \in {NoKey, "key"}
    /\ IdleSessions
    /\ IdleSanitize
    /\ IdlePool

\* the rate limiting middleware, the outermost one: 429, or the request goes on
ApiRateLimit ==
    /\ front_pc = "received"
    /\ LET r == is_allowed(requests, req.client, now)
       IN  /\ requests' = (req.client :> r.list) @@ requests
           /\ decision' = [client |-> req.client, at |-> now, allowed |-> r.allowed,
                           allowed_before |-> Len(allowed_log[req.client]),
                           refused_before |-> refused_at[req.client],
                           status |-> IF r.allowed THEN 0 ELSE 429,
                           code |-> IF r.allowed THEN "none" ELSE "RATE_LIMIT_ERROR",
                           retry_after |-> IF r.allowed THEN 0 ELSE window]
           /\ allowed_log' = IF r.allowed
                             THEN [allowed_log EXCEPT ![req.client] = Append(@, now)]
                             ELSE allowed_log
           /\ refused_at' = [refused_at EXCEPT ![req.client] =
                                IF r.allowed THEN NoTime ELSE now]
           /\ front_pc' = IF r.allowed THEN "parsing" ELSE "responded"
           /\ http' = IF r.allowed THEN http
                      ELSE [status |-> 429, code |-> "RATE_LIMIT_ERROR", body |-> "error"]
    /\ UNCHANGED <<now, req, TMDB_API_KEY, sessVars, sanVars, poolVars>>
    /\ UNCHANGED <<det_kind, det_id, det_pc, catalog_gets, catalog_resp, det_exc, details,
                   handler_pc>>
    /\ UNCHANGED <<aggVars, probeVars, worldVars, searchVars>>

\* the body is turned into the request model of the endpoint, whose text_search
\* is the sanitized text: a ValidationError of a validator is answered by
\* streamportal_error_handler, an absent or ill-typed field by the framework with
\* 422 and a body {"detail": [...]}
ParseBody ==
    /\ front_pc = "parsing"
    /\ LET outcome == parse_body(req)
       IN  /\ front_pc' = IF outcome = "ok" THEN "handler" ELSE "responded"
           /\ req' = IF outcome = "ok" /\ req.endpoint = "search"
                     THEN [req EXCEPT !.text_search = StrField(sanitize_input(@.text))]
                     ELSE req
           /\ http' = IF outcome = "ok" THEN http
                      ELSE IF outcome = "raise" THEN exception_handler(ValidationError)
                      ELSE [status |-> 422, code |-> "none", body |-> "detail"]
    /\ UNCHANGED <<limiterVars, TMDB_API_KEY, sessVars, sanVars, poolVars>>
    /\ UNCHANGED <<det_kind, det_id, det_pc, catalog_gets, catalog_resp, det_exc, details,
                   handler_pc>>
    /\ UNCHANGED <<aggVars, probeVars, worldVars, searchVars>>

\* search / get_details up to their `try`: get_headers, then the call of the
\* search or details function of the content type
HandlerEnter ==
    /\ front_pc = "handler"
    /\ IF get_headers(TMDB_API_KEY)
       THEN /\ front_pc' = "responded"
            /\ http' = exception_handler(AuthenticationError)
            /\ UNCHANGED <<det_kind, det_id, det_pc, handler_pc, search_kind, search_pc>>
       ELSE /\ front_pc' = "called"
            /\ handler_pc' = "awaiting"
            /\ UNCHANGED http
            /\ IF req.endpoint = "details"
               THEN /\ det_kind' = IF req.type_of_content.text = TypeMovie
                                   THEN "Movie" ELSE "Series"
                    /\ det_id' = req.content_id.value
                    /\ det_pc' = "init"
                    /\ UNCHANGED <<search_kind, search_pc>>
               ELSE /\ search_kind' = IF req.type_of_content.text = TypeMovie
                                      THEN "Movie" ELSE "Series"
                    /\ search_pc' = "init"
                    /\ UNCHANGED <<det_kind, det_id, det_pc>>
    /\ UNCHANGED <<limiterVars, req, TMDB_API_KEY, sessVars, sanVars, poolVars>>
    /\ UNCHANGED <<catalog_gets, catalog_resp, det_exc, details>>
    /\ UNCHANGED <<page_gets, page_results, out_of_order, page_fate, search_list, search_exc>>
    /\ UNCHANGED <<aggVars, probeVars, worldVars>>

\* the /search handler after the search function: SearchResponse(results=...), or
\* its `except Exception`
SearchRespond ==
    /\ handler_pc = "awaiting"
    /\ search_pc \in {"done", "raised"}
    /\ http' = IF search_pc = "done" THEN [status |-> 200, code |-> "none", body |-> "results"]
               ELSE error_response(Builtin(search_exc))
    /\ handler_pc' = "responded"
    /\ UNCHANGED <<det_kind, det_id, det_pc, catalog_gets, catalog_resp, det_exc, details>>
    /\ UNCHANGED <<aggVars, probeVars, worldVars, searchVars, frontVars>>

NextApi ==
    \/ ApiRateLimit
    \/ ParseBody
    \/ HandlerEnter
    \/ NextDetails
    \/ NextSearch
    \/ SearchRespond

SpecApi == InitApi /\ [][NextApi]_vars

(***************************************************************************)
(* SpecSessions: two calls of the core run concurrently, each a movie      *)
(* search or a movie details call, looked at for the ClientSession they    *)
(* use: `async with aiohttp.ClientSession() as session` creates it on      *)
(* entry and closes it when the block is left; every GET of the call is    *)
(* made on the session handed down as a parameter.                         *)
(***************************************************************************)
\* faulty variant: one ClientSession made at module level serves every call
module_session(created) == 1

\* aiohttp.ClientSession(): a new object, the next one after those created so far
new_session(created) == Len(created) + 1

InitSessions ==
    /\ series = [id |-> 0, number_of_seasons |-> 0]
    /\ NoAggCall
    /\ IdleProbe
    /\ IdleSearch
    /\ IdleDetails
    /\ FirstCall
    /\ IdleLimiter
    /\ IdleRequest
    /\ IdleSanitize
    /\ IdlePool
    /\ call_kind \in [Calls -> {"search", "details"}]
    /\ call_pc = [r \in Calls |-> "init"]
    /\ call_session = [r \in Calls |-> 0]
    /\ call_slots = [r \in Calls |-> <<>>]
    /\ sessions = <<>>

\* the `async with` block of call r is left: its session is closed
close(ss, r) ==
    [ss EXCEPT ![call_session[r]] = [@ EXCEPT !.state = "closed", !.closed_by = r]]

\* call r enters its `async with`: the session is created; a search starts the
\* fetches of its pages, a details call its catalog GET
CallEnter(r) ==
    /\ call_pc[r] = "init"
    /\ LET id == new_session(sessions)
       IN  /\ call_session' = [call_session EXCEPT ![r] = id]
           /\ sessions' = IF id \in DOMAIN sessions THEN sessions
                          ELSE Append(sessions, [owner |-> r, state |-> "open", closed_by |-> 0])
    /\ call_pc' = [call_pc EXCEPT ![r] = IF call_kind[r] = "search" THEN "gather" ELSE "catalog"]
    /\ call_slots' = [call_slots EXCEPT ![r] =
                        IF call_kind[r] = "search" THEN [p \in 1..movie_pages |-> PagePending]
                        ELSE <<>>]
    /\ UNCHANGED call_kind
    /\ UNCHANGED outsideSessions

\* the fetch of page p of search call r ends (what it returns plays no part here)
CallPageReturn(r, p) ==
    /\ call_pc[r] = "gather"
    /\ p \in 1..Len(call_slots[r])
    /\ call_slots[r][p] = PagePending
    /\ call_slots' = [call_slots EXCEPT ![r][p] = EmptyPage]
    /\ UNCHANGED <<call_kind, call_pc, call_session, sessions>>
    /\ UNCHANGED outsideSessions

\* the gather of search call r is complete: the list is built and the block is left
CallCollect(r) ==
    /\ call_pc[r] = "gather"
    /\ pages_complete(call_slots[r])
    /\ call_pc' = [call_pc EXCEPT ![r] = "done"]
    /\ sessions' = close(sessions, r)
    /\ UNCHANGED <<call_kind, call_session, call_slots>>
    /\ UNCHANGED outsideSessions

\* the catalog GET of details call r ends: the probe of the mirror follows, or
\* the call raises and the block is left
CallCatalogReturn(r) ==
    /\ call_pc[r] = "catalog"
    /\ \E found \in BOOLEAN :
         /\ call_pc' = [call_pc EXCEPT ![r] = IF found THEN "probe" ELSE "done"]
         /\ sessions' = IF found THEN sessions ELSE close(sessions, r)
    /\ UNCHANGED <<call_kind, call_session, call_slots>>
    /\ UNCHANGED outsideSessions

\* the probe of details call r ends: the record is built and the block is left
CallProbeReturn(r) ==
    /\ call_pc[r] = "probe"
    /\ call_pc' = [call_pc EXCEPT ![r] = "done"]
    /\ sessions' = close(sessions, r)
    /\ UNCHANGED <<call_kind, call_session, call_slots>>
    /\ UNCHANGED outsideSessions

NextSessions ==
    \/ \E r \in Calls : CallEnter(r)
    \/ \E r \in Calls, p \in 1..movie_pages : CallPageReturn(r, p)
    \/ \E r \in Calls : CallCollect(r)
    \/ \E r \in Calls : CallCatalogReturn(r)
    \/ \E r \in Calls : CallProbeReturn(r)

SpecSessions == InitSessions /\ [][NextSessions]_vars

\* the requests of InitApi, a search being one for series (three pages)
InitFair ==
    /\ InitApi
    /\ req.endpoint = "search" => req.type_of_content.text # TypeMovie

\* one request on an event loop that runs whatever is ready, with network calls
\* that complete or time out: a step that can be taken is eventually taken
FairApi == InitFair /\ [][NextApi]_vars /\ WF_vars(NextApi)

(***************************************************************************)
(* Vocabulary of the properties                                            *)
(***************************************************************************)
SeqToSet(q) == {q[i] : i \in DOMAIN q}

StrictlyAscending(q) == \A i, j \in DOMAIN q : i < j => q[i] < q[j]

\* the seasons the aggregator is meant to examine
ClampedSeasons ==
    {s \in Seasons : s <= series.number_of_seasons /\ s <= SeasonCeiling}

\* the outcome observed for the URL of (season s, episode e): episode 1 by the
\* resolver's gate, the others by the fan-out
ProbedTrue(s, e) ==
    IF e = 1 THEN gate_ret[s] = "True"
    ELSE e \in DOMAIN results[s] /\ results[s][e] = "True"

\* every URL probed more than once in this run gave the same outcome each time
Deterministic ==
    /\ gate_ret[1] # "none" => gate_ret[1] = gate_ret[0]
    /\ \A s \in Seasons :
         (results[s] # <<>> /\ results[s][1] # "pending") => results[s][1] = gate_ret[s]

\* the (season, episode) pairs that exist according to the observed outcomes
ExistingPairs ==
    {p \in ClampedSeasons \X (1..EpisodeCeiling) : ProbedTrue(p[1], 1) /\ ProbedTrue(p[1], p[2])}

\* (season, episode) of a URL of the result
PairOf(u) == <<u.season, u.episode>>

LexLess(p, q) == p[1] < q[1] \/ (p[1] = q[1] /\ p[2] < q[2])

(***************************************************************************)
(* C1  With the series-level probe true and every URL giving the same      *)
(* outcome each time it is probed, the aggregator returns: valid_seasons = *)
(* the ascending seasons of 1..min(declared, ceiling) whose episode 1 and  *)
(* at least one episode exist; valid_episodes[s] = the ascending list of   *)
(* exactly the existing episodes of s; streaming_urls = one URL per such   *)
(* pair; and nothing is probed for a season above the ceiling.             *)
(***************************************************************************)
C1_AggregatorResult ==
    (agg_pc = "done" /\ gate_ret[0] = "True" /\ Deterministic) =>
        /\ StrictlyAscending(valid_seasons)
        /\ SeqToSet(valid_seasons) = {p[1] : p \in ExistingPairs}
        /\ DOMAIN valid_episodes = {p[1] : p \in ExistingPairs}
        /\ \A s \in DOMAIN valid_episodes :
             /\ StrictlyAscending(valid_episodes[s])
             /\ SeqToSet(valid_episodes[s]) = {p[2] : p \in {q \in ExistingPairs : q[1] = s}}
        /\ Len(streaming_urls) = Cardinality(ExistingPairs)
        /\ SeqToSet(streaming_urls) = {TvUrl(series.id, p[1], p[2]) : p \in ExistingPairs}
        /\ \A s \in Seasons : s > SeasonCeiling => gets[s] = <<>>

\* declared above the ceiling; season 1 has episodes 1 and 2 but not 3, season 2 has episode 1 only
C1_Witness ==
    /\ agg_pc = "done" /\ gate_ret[0] = "True" /\ Deterministic
    /\ series.number_of_seasons > SeasonCeiling
    /\ ProbedTrue(1, 2) /\ ~ ProbedTrue(1, 3) /\ ~ ProbedTrue(2, 2)
    /\ valid_seasons = <<1, 2>>
    /\ valid_episodes[1] = <<1, 2>> /\ valid_episodes[2] = <<1>>
    /\ streaming_urls = <<TvUrl(series.id, 1, 1), TvUrl(series.id, 1, 2), TvUrl(series.id, 2, 1)>>

(***************************************************************************)
(* C2  streaming_urls is in season-then-episode ascending order and holds  *)
(* exactly the URLs of the episodes the resolvers returned, so it is       *)
(* fixed by the probe outcomes alone, whatever the completion order.       *)
(***************************************************************************)
C2_UrlOrderDeterministic ==
    agg_pc = "done" =>
        /\ \A i, j \in DOMAIN streaming_urls :
             i < j => LexLess(PairOf(streaming_urls[i]), PairOf(streaming_urls[j]))
        /\ SeqToSet(streaming_urls) =
             UNION {{TvUrl(series.id, s, e) : e \in SeqToSet(season_results[s].value)} :
                    s \in Seasons}

\* season 2 completed before season 1, and both contribute URLs
C2_Witness ==
    /\ agg_pc = "done"
    /\ Len(done_order) >= 2 /\ done_order[1] = 2 /\ done_order[2] = 1
    /\ \E i, j \in DOMAIN streaming_urls :
         streaming_urls[i].season = 1 /\ streaming_urls[j].season = 2

(***************************************************************************)
(* C3  A resolver whose first-episode probe returned false returns the     *)
(* empty list and has issued exactly that one probe.                       *)
(***************************************************************************)
C3_GateShortCircuit ==
    \A s \in Seasons :
        gate_ret[s] = "False" =>
            /\ res_pc[s] = "done"
            /\ season_results[s] = ListResult(<<>>)
            /\ gets[s] = <<TvUrl(series.id, s, 1)>>
            /\ results[s] = <<>>

\* the resolver of the last season stopped at its gate after its single GET
C3_Witness ==
    /\ gate_ret[MaxDeclared] = "False"
    /\ res_pc[MaxDeclared] = "done"
    /\ Len(gets[MaxDeclared]) = 1
    /\ season_results[MaxDeclared].value = <<>>

(***************************************************************************)
(* C4  Every episode list returned by a resolver or by the aggregator is   *)
(* strictly ascending within 1..episode ceiling, every season of the       *)
(* result is within 1..season ceiling, and no GET is ever issued for an    *)
(* episode or season outside those ranges.                                 *)
(***************************************************************************)
C4_Ceilings ==
    /\ \A s \in Seasons :
         /\ StrictlyAscending(season_results[s].value)
         /\ SeqToSet(season_results[s].value) \subseteq 1..EpisodeCeiling
    /\ SeqToSet(valid_seasons) \subseteq 1..SeasonCeiling
    /\ \A s \in DOMAIN valid_episodes :
         /\ s \in 1..SeasonCeiling
         /\ StrictlyAscending(valid_episodes[s])
         /\ SeqToSet(valid_episodes[s]) \subseteq 1..EpisodeCeiling
    /\ \A i \in Issuers : \A k \in DOMAIN gets[i] :
         /\ gets[i][k].season \in 1..SeasonCeiling
         /\ gets[i][k].episode \in 1..EpisodeCeiling

\* the highest season and the highest episode are both in the result
C4_Witness ==
    /\ agg_pc = "done"
    /\ series.number_of_seasons > SeasonCeiling
    /\ SeasonCeiling \in DOMAIN valid_episodes
    /\ valid_episodes[SeasonCeiling][Len(valid_episodes[SeasonCeiling])] = EpisodeCeiling
    /\ Len(valid_episodes[SeasonCeiling]) >= 2

(***************************************************************************)
(* C5  When the first-episode gate is true, every episode of 2..ceiling    *)
(* whose probe is true is in the resolver's result, also above a gap.      *)
(***************************************************************************)
C5_SparsePreserved ==
    \A s \in Seasons :
        (res_pc[s] = "done" /\ gate_ret[s] = "True") =>
            /\ season_results[s].type = "list"
            /\ \A e \in 2..EpisodeCeiling :
                 results[s][e] = "True" => e \in SeqToSet(season_results[s].value)

\* episode 2 probed false, episode 3 probed true and is returned
C5_Witness ==
    \E s \in Seasons :
        /\ res_pc[s] = "done" /\ gate_ret[s] = "True"
        /\ results[s][2] = "False" /\ results[s][3] = "True"
        /\ 3 \in SeqToSet(season_results[s].value)

(***************************************************************************)
(* C6  When exactly one episode probe of a season ended in an exception,   *)
(* the resolver returns (it does not raise) the list it returns when that  *)
(* probe returned false: the ascending episodes whose probe is true.       *)
(***************************************************************************)
ExceptionSlots(s) == {i \in DOMAIN results[s] : results[s][i] \notin {"pending", "True", "False"}}

\* the outcomes of season s with the exceptions replaced by False
ExceptionsAsFalse(s) ==
    [i \in DOMAIN results[s] |-> IF i \in ExceptionSlots(s) THEN "False" ELSE results[s][i]]

C6_ProbeExceptionIsFalse ==
    \A s \in Seasons :
        (res_pc[s] = "done" /\ Cardinality(ExceptionSlots(s)) = 1) =>
            /\ season_results[s].type = "list"
            /\ StrictlyAscending(season_results[s].value)
            /\ SeqToSet(season_results[s].value) =
                 {i \in DOMAIN results[s] : ExceptionsAsFalse(s)[i] = "True"}

\* the probe of episode 2 ended in an exception, episodes 1 and 3 are returned
C6_Witness ==
    \E s \in Seasons :
        /\ res_pc[s] = "done" /\ ExceptionSlots(s) = {2}
        /\ season_results[s] = ListResult(<<1, 3>>)

(***************************************************************************)
(* C7  check_url_exists_async issues one GET and returns True exactly      *)
(* when it completes with status 200; on a timeout, a network error or a   *)
(* non-200 status it returns False and raises nothing.                     *)
(***************************************************************************)
C7_ProbeContract ==
    probe_pc \in {"returned", "raised"} =>
        /\ probe_gets = <<probe_url>>
        /\ (probe_ret = "True") <=> (probe_resp = Status(200))
        /\ (\/ (probe_resp.kind = "status" /\ probe_resp.code # 200)
            \/ (probe_resp.kind = "raise" /\ probe_resp.exc \in {"TimeoutError", "ClientError"}))
              => (probe_pc = "returned" /\ probe_ret = "False")

\* a 2xx status other than 200 gives False
C7_Witness ==
    /\ probe_pc = "returned"
    /\ probe_resp = Status(204)
    /\ probe_ret = "False"

(***************************************************************************)
(* C8  Once the series-level gate has passed, the resolver has been        *)
(* launched exactly once for each season of 1..min(declared, ceiling) and  *)
(* never for another season.                                               *)
(***************************************************************************)
C8_LaunchedSeasons ==
    (agg_pc \in {"gather", "done"} /\ gate_ret[0] = "True") =>
        \A s \in Seasons :
            /\ launched[s] = IF s \in ClampedSeasons THEN 1 ELSE 0
            /\ s \notin ClampedSeasons => (res_pc[s] = "idle" /\ gets[s] = <<>>)

\* declared above the ceiling: the ceiling season ran, the next one did not
C8_Witness ==
    /\ agg_pc = "done" /\ gate_ret[0] = "True"
    /\ series.number_of_seasons = SeasonCeiling + 1
    /\ launched[SeasonCeiling] = 1 /\ res_pc[SeasonCeiling] = "done"
    /\ launched[SeasonCeiling + 1] = 0

(***************************************************************************)
(* C9  A season whose resolver ended in an exception is absent from        *)
(* valid_seasons, valid_episodes and streaming_urls; the aggregator still  *)
(* returns; every other season has the entries it has when the raising     *)
(* season returned an empty list, i.e. its own non-empty list or nothing.  *)
(***************************************************************************)
RaisedSeasons == {s \in Seasons : season_results[s].type \notin {"none", "pending", "list"}}

C9_SeasonExceptionIsolated ==
    /\ agg_pc = "raised" => raised(gate_ret[0])
    /\ (agg_pc = "gather" /\ \A s \in awaited_seasons : res_pc[s] = "done") => ENABLED AggCollect
    /\ agg_pc = "done" =>
         /\ \A s \in RaisedSeasons :
              /\ s \notin SeqToSet(valid_seasons)
              /\ s \notin DOMAIN valid_episodes
              /\ \A i \in DOMAIN streaming_urls : streaming_urls[i].season # s
         /\ RaisedSeasons # {} =>
              \A t \in Seasons \ RaisedSeasons :
                 LET mine == IF season_results[t].type = "list"
                             THEN season_results[t].value ELSE <<>>
                 IN  /\ t \in SeqToSet(valid_seasons) <=> mine # <<>>
                     /\ t \in DOMAIN valid_episodes <=> mine # <<>>
                     /\ t \in DOMAIN valid_episodes => valid_episodes[t] = mine
                     /\ SelectSeq(streaming_urls, LAMBDA u : u.season = t) =
                          [j \in 1..Len(mine) |-> TvUrl(series.id, t, mine[j])]

\* season 1 raised and season 2 is in the result
C9_Witness ==
    /\ agg_pc = "done"
    /\ RaisedSeasons = {1}
    /\ valid_seasons = <<2>>
    /\ Len(streaming_urls) >= 2

(***************************************************************************)
(* C10 The three components of a result agree: the keys of valid_episodes  *)
(* are the members of valid_seasons, every listed season has a non-empty   *)
(* list, and streaming_urls has exactly one URL per (season, episode) of   *)
(* valid_episodes, so its length is the sum of the list lengths.           *)
(***************************************************************************)
RECURSIVE SumLen(_, _)
SumLen(f, D) ==
    IF D = {} THEN 0
    ELSE LET s == CHOOSE x \in D : TRUE IN Len(f[s]) + SumLen(f, D \ {s})

C10_ComponentsAgree ==
    /\ DOMAIN valid_episodes = SeqToSet(valid_seasons)
    /\ Len(valid_seasons) = Cardinality(SeqToSet(valid_seasons))
    /\ \A s \in DOMAIN valid_episodes : valid_episodes[s] # <<>>
    /\ Len(streaming_urls) = SumLen(valid_episodes, DOMAIN valid_episodes)
    /\ \A s \in DOMAIN valid_episodes : \A k \in DOMAIN valid_episodes[s] :
         Cardinality({i \in DOMAIN streaming_urls :
                        streaming_urls[i] = TvUrl(series.id, s, valid_episodes[s][k])}) = 1

\* a result with two seasons and more URLs than seasons
C10_Witness ==
    /\ agg_pc = "done"
    /\ Len(valid_seasons) = 2
    /\ Len(streaming_urls) > 2
    /\ Len(streaming_urls) = Len(valid_episodes[1]) + Len(valid_episodes[2])

(***************************************************************************)
(* C11 When the series-level probe returns false or fails, the aggregator  *)
(* returns ([], {}, []) and launches nothing: no season resolver runs and  *)
(* no probe beyond the series-level one is issued.                         *)
(***************************************************************************)
C11_GateFailureLaunchesNothing ==
    /\ gate_ret[0] \notin {"none", "True"} =>
         /\ \A s \in Seasons : launched[s] = 0 /\ res_pc[s] = "idle" /\ gets[s] = <<>>
         /\ gets[0] = <<TvUrl(series.id, 1, 1)>>
         /\ agg_pc \in {"done", "raised"}
    /\ gate_ret[0] = "False" =>
         /\ agg_pc = "done"
         /\ valid_seasons = <<>> /\ valid_episodes = <<>> /\ streaming_urls = <<>>

\* the series-level probe of a series that declares seasons returned false
C11_Witness ==
    /\ agg_pc = "done"
    /\ gate_ret[0] = "False"
    /\ series.number_of_seasons >= 1

(***************************************************************************)
(* C12 The series-level gate is cost-control only: with every URL giving   *)
(* one fixed answer, the result the aggregator returns is the result of    *)
(* running the season resolvers of seasons 1..min(declared, ceiling)       *)
(* without the gate.                                                       *)
(***************************************************************************)
\* the one answer the bound mirror gives a probe of url
fixed_outcome(url) == CHOOSE ret \in probe_outcomes(url) : TRUE

\* what the resolver of season s returns against the bound mirror
ungated_season_result(s) ==
    LET urls == episode_urls(series.id, s, default_max_episodes)
    IN  IF first_episode_absent(fixed_outcome(TvUrl(series.id, s, 1)))
        THEN ListResult(<<>>)
        ELSE ListResult(resolver_return([i \in 1..Len(urls) |-> fixed_outcome(urls[i])]))

\* lines 203-250 run without lines 187-200
ungated_result ==
    LET n == total_seasons(series)
        sr == [s \in 1..n |-> ungated_season_result(s)]
    IN  assemble(enumerate_season_results(sr, n, Range(1, n + 1)), 1, series.id, EmptyResult)

C12_GateIsCostOnly ==
    agg_pc = "done" =>
        [vs |-> valid_seasons, ve |-> valid_episodes, su |-> streaming_urls] = ungated_result

(***************************************************************************)
(* C15 The aggregator is idempotent: called twice on the same series while *)
(* every URL gives one fixed answer, it returns the same three values, and *)
(* the second call issues the GETs the first one issued; nothing of the    *)
(* first call reaches the second.                                          *)
(***************************************************************************)
C15_Idempotent ==
    (run = 2 /\ agg_pc = "done") =>
        [vs |-> valid_seasons, ve |-> valid_episodes, su |-> streaming_urls] = prev_result

\* the second call returned two seasons, the first season without its second episode
C15_Witness ==
    /\ run = 2
    /\ agg_pc = "done"
    /\ valid_seasons = <<1, 2>>
    /\ 2 \notin SeqToSet(valid_episodes[1])
    /\ done_order = <<2, 1>>

(***************************************************************************)
(* C20 A search issues exactly one fetch for each of the pages 1..5        *)
(* (movies) or 1..3 (series), and the list it returns is the concatenation,*)
(* in ascending page number, of the entries of the pages fetched with      *)
(* success, each page's entries in page order and one output entry per     *)
(* input entry, whatever the order in which the fetches completed.         *)
(***************************************************************************)
\* the entries of page p as the catalog sent them, none for a page that failed
SuccessfulItems(p) ==
    IF page_results[p].type = "dict" THEN page_results[p].body.results ELSE <<>>

\* the ids of the entries of pages p, p + 1, ... in that order
RECURSIVE IdsFromPage(_)
IdsFromPage(p) ==
    IF p > Len(page_results) THEN <<>>
    ELSE [i \in 1..Len(SuccessfulItems(p)) |-> SuccessfulItems(p)[i].id] \o IdsFromPage(p + 1)

C20_SearchConcatenation ==
    /\ search_pc \in {"gather", "done", "raised"} =>
         /\ search_kind = "Movie" => page_gets = <<1, 2, 3, 4, 5>>
         /\ search_kind = "Series" => page_gets = <<1, 2, 3>>
         /\ Len(page_results) = Len(page_gets)
    /\ search_pc = "done" =>
         [i \in 1..Len(search_list) |-> search_list[i].id] = IdsFromPage(1)

\* pages 1 and 3 came back with entries, page 2 without, and some fetch overtook a lower-numbered page
C20_Witness ==
    /\ search_pc = "done"
    /\ out_of_order
    /\ Len(SuccessfulItems(1)) = 2
    /\ SuccessfulItems(2) = <<>>
    /\ Len(SuccessfulItems(3)) = 1
    /\ Len(search_list) >= 3

(***************************************************************************)
(* C16 In every record get_movie_details returns, url is present exactly   *)
(* when is_available is true and is then {mirror}/movie/{id}, is_available *)
(* is true exactly when the probe of that URL was answered with 200, and   *)
(* the request issued exactly one probe; no request issues more than one.  *)
(***************************************************************************)
C16_MovieRecord ==
    /\ Len(probe_gets) <= 1
    /\ det_pc = "returned" =>
         /\ details.url # NoUrl <=> details.is_available
         /\ details.is_available =>
              details.url = [host |-> "vixsrc.to", path |-> "movie", id |-> det_id,
                             season |-> 0, episode |-> 0]
         /\ details.is_available <=> probe_resp = Status(200)
         /\ probe_gets = <<MovieUrl(det_id)>>

\* a record with the URL of a movie whose probe was answered with 200
C16_Witness ==
    /\ det_pc = "returned"
    /\ det_kind = "Movie"
    /\ probe_resp = Status(200)
    /\ details.is_available
    /\ details.url = MovieUrl(det_id)

(***************************************************************************)
(* C17 Whenever the catalog fetch of a details request succeeds, no        *)
(* outcome of the availability check turns into an error: the request      *)
(* returns the record of the title, and an availability check that raised  *)
(* or found nothing gives is_available = false with the three empty values *)
(* (series) or without url (movie).  The only other way such a request     *)
(* ends is its own cancellation while it awaits a probe, which leaves no   *)
(* response at all.                                                        *)
(***************************************************************************)
\* the catalog answered 200 with a record that has the fields of the title
CatalogSucceeded ==
    /\ catalog_resp.kind = "status"
    /\ catalog_resp.code = 200
    /\ catalog_resp.body.json
    /\ catalog_resp.body.complete

\* the availability check of the request is over and did not find the title
AvailabilityFailed ==
    \/ det_kind = "Movie" /\ probe_pc = "returned" /\ probe_ret = "False"
    \/ det_kind = "Series" /\ agg_pc = "raised" /\ agg_exception # "CancelledError"
    \/ det_kind = "Series" /\ agg_pc = "done" /\ gate_ret[0] = "False"

\* the request was cancelled while it awaited a probe directly
CancelledAtProbe ==
    \/ det_kind = "Movie" /\ probe_ret = "CancelledError"
    \/ det_kind = "Series" /\ gate_ret[0] = "CancelledError"

C17_AvailabilityNeverBlocks ==
    CatalogSucceeded =>
        /\ http.status \in {0, 200}
        /\ det_exc.class \in {"none", "CancelledError"}
        /\ det_pc = "raised" => CancelledAtProbe
        /\ handler_pc = "cancelled" => CancelledAtProbe
        /\ AvailabilityFailed => det_pc \in {"availability", "returned"}
        /\ det_pc = "returned" =>
             /\ details.id = det_id
             /\ AvailabilityFailed =>
                  /\ ~ details.is_available
                  /\ details.url = NoUrl
                  /\ details.valid_seasons = <<>>
                  /\ details.valid_episodes = <<>>
                  /\ details.streaming_urls = <<>>

\* the aggregator raised after its gate passed, and the request was answered 200
\* with a record that says not available
C17_Witness ==
    /\ CatalogSucceeded
    /\ det_kind = "Series"
    /\ agg_pc = "raised"
    /\ gate_ret[0] = "True"
    /\ handler_pc = "responded"
    /\ http.status = 200
    /\ ~ details.is_available

(***************************************************************************)
(* C18 A catalog failure is never reported as 'not available': a details   *)
(* function returns a record only if the catalog answered 200, and raises  *)
(* NotFoundError or ExternalAPIError when the catalog answered anything    *)
(* else or the GET failed; conversely those two errors are raised only for *)
(* a catalog failure, never for a probe failure.                           *)
(***************************************************************************)
\* the catalog GET is over and did not give a record
CatalogFailed ==
    \/ catalog_resp.kind = "status" /\ (catalog_resp.code # 200 \/ ~ catalog_resp.body.json)
    \/ catalog_resp.kind = "raise" /\ catalog_resp.exc \in ExceptionClasses

C18_CatalogFailureIsAnError ==
    /\ det_pc = "returned" => (catalog_resp.kind = "status" /\ catalog_resp.code = 200)
    /\ CatalogFailed =>
         /\ det_pc = "raised"
         /\ det_exc.class \in {"NotFoundError", "ExternalAPIError"}
         /\ details = NoDetails
         /\ probe_gets = <<>>
         /\ gets = [i \in Issuers |-> <<>>]
    /\ det_exc.class \in {"NotFoundError", "ExternalAPIError"} => CatalogFailed

\* the catalog answered 500 and the details function raised ExternalAPIError
C18_Witness ==
    /\ catalog_resp.kind = "status"
    /\ catalog_resp.code = 500
    /\ det_pc = "raised"
    /\ det_exc.class = "ExternalAPIError"

(***************************************************************************)
(* C19 The status of the /details response reflects the catalog outcome:   *)
(* catalog 404 gives 404 NOT_FOUND_ERROR, any other non-200 catalog status *)
(* s gives an EXTERNAL_API_ERROR response with status s, and a transport   *)
(* error of the catalog GET gives 502.                                     *)
(***************************************************************************)
C19_StatusReflectsCatalog ==
    handler_pc = "responded" =>
        /\ (catalog_resp.kind = "status" /\ catalog_resp.code = 404) =>
             http = [status |-> 404, code |-> "NOT_FOUND_ERROR", body |-> "error"]
        /\ (catalog_resp.kind = "status" /\ catalog_resp.code \notin {200, 404}) =>
             http = [status |-> catalog_resp.code, code |-> "EXTERNAL_API_ERROR", body |-> "error"]
        /\ (catalog_resp.kind = "raise" /\ catalog_resp.exc \in ExceptionClasses) =>
             http = [status |-> 502, code |-> "EXTERNAL_API_ERROR", body |-> "error"]

\* the catalog answered 401 and so did the API
C19_Witness ==
    /\ handler_pc = "responded"
    /\ catalog_resp.kind = "status"
    /\ catalog_resp.code = 401
    /\ http.status = 401

(***************************************************************************)
(* C13 A fan-out stage computes its result only after every unit it        *)
(* launched has completed: a resolver returns its episode list only when   *)
(* none of its episode probes is outstanding, the aggregator assembles its *)
(* result only when every launched resolver has returned or raised, and a  *)
(* search builds its list only when no page fetch is outstanding.          *)
(***************************************************************************)
C13_ResultAfterAllUnits ==
    /\ \A s \in Seasons :
         (res_pc[s] = "done" /\ results[s] # <<>>) =>
             /\ Len(results[s]) = Len(episode_urls(series.id, s, default_max_episodes))
             /\ \A i \in 1..Len(results[s]) : results[s][i] # "pending"
    /\ agg_pc = "done" =>
         \A s \in Seasons :
            launched[s] > 0 => (res_pc[s] = "done" /\ season_results[s].type # "pending")
    /\ search_pc \in {"done", "raised"} =>
         /\ Len(page_results) = Len(page_gets)
         /\ \A p \in 1..Len(page_results) : page_results[p] # PagePending

\* the aggregator returned two seasons, the resolver of season 2 having finished first
C13_Witness ==
    /\ agg_pc = "done"
    /\ done_order = <<2, 1>>
    /\ valid_seasons = <<1, 2>>
    /\ \A s \in 1..2 : \A i \in 1..Len(results[s]) : results[s][i] # "pending"

(***************************************************************************)
(* C14 A failing or slow unit never cancels or aborts its siblings or its  *)
(* parent stage: while a unit is outstanding next to a sibling that ended  *)
(* in an exception the parent keeps waiting and the unit can still         *)
(* complete, and the outcome of every unit is used whatever the outcomes   *)
(* of the others.                                                          *)
(***************************************************************************)
FailedSlot(x) == x \notin {"pending", "True", "False"}

C14_NoSiblingAbort ==
    /\ \A s \in Seasons : \A j \in 1..Len(results[s]) :
         ((\E i \in 1..Len(results[s]) : FailedSlot(results[s][i])) /\ results[s][j] = "pending")
            => (res_pc[s] = "gather" /\ ENABLED EpisodeProbeReturn(s, j))
    /\ \A t \in Seasons :
         (RaisedSeasons # {} /\ launched[t] > 0 /\ res_pc[t] # "done")
            => /\ agg_pc = "gather"
               /\ res_pc[t] = "gate" => ENABLED SeasonGateReturn(t)
               /\ res_pc[t] = "gather" => \A j \in 1..Len(results[t]) :
                     results[t][j] = "pending" => ENABLED EpisodeProbeReturn(t, j)
    /\ \A q \in 1..Len(page_results) :
         ((\E p \in 1..Len(page_results) : page_results[p].type = "CancelledError")
            /\ page_results[q] = PagePending)
            => (search_pc = "gather" /\ ENABLED PageReturn(q))
    /\ \A s \in Seasons :
         (res_pc[s] = "done" /\ results[s] # <<>>) =>
             /\ season_results[s].type = "list"
             /\ SeqToSet(season_results[s].value) =
                   {i \in 1..Len(results[s]) : results[s][i] = "True"}
    /\ agg_pc = "done" =>
         \A t \in Seasons :
            (season_results[t].type = "list" /\ season_results[t].value # <<>>)
               => (t \in SeqToSet(valid_seasons) /\ valid_episodes[t] = season_results[t].value)
    /\ search_pc = "done" =>
         \A p \in 1..Len(page_results) : \A i \in 1..Len(SuccessfulItems(p)) :
            \E k \in 1..Len(search_list) : search_list[k].id = SuccessfulItems(p)[i].id

\* the resolver of season 1 raised first; season 2, one of whose episode probes also
\* ended in an exception, finished after it and is in the result
C14_Witness ==
    /\ agg_pc = "done"
    /\ done_order = <<1, 2>>
    /\ RaisedSeasons = {1}
    /\ \E i \in 1..Len(results[2]) : FailedSlot(results[2][i])
    /\ valid_seasons = <<2>>
    /\ Len(valid_episodes[2]) >= 2

\* the GET of page p ended with a status other than 200 or with a transport error
FailedPage(p) == page_fate[p] \in {"status", "transport"}

\* the list entries of the pages p, p + 1, ... whose GET did not fail, in page order
RECURSIVE EntriesOfOtherPages(_)
EntriesOfOtherPages(p) ==
    IF p > Len(page_results) THEN <<>>
    ELSE IF FailedPage(p) \/ ~ has_results(page_results[p]) THEN EntriesOfOtherPages(p + 1)
    ELSE [i \in 1..Len(page_results[p].body.results) |->
              list_entry(search_kind, page_results[p].body.results[i])]
         \o EntriesOfOtherPages(p + 1)

\* C21: a search page whose fetch fails with a transport error or with a status
\* other than 200 contributes zero items (its slot is {"results": []}); the list
\* the search returns is made of the items of the other pages, unchanged and in
\* page order; and an exception leaves the search only for an entry of a page
\* that was fetched with status 200 and lacks a field the loop indexes, never
\* for a failed fetch.
C21_FailedPageIsEmpty ==
    /\ \A p \in DOMAIN page_fate : FailedPage(p) => page_results[p] = EmptyPage
    /\ search_pc = "done" => search_list = EntriesOfOtherPages(1)
    /\ search_pc = "raised" =>
         /\ search_exc = "KeyError"
         /\ \E p \in DOMAIN page_fate :
              /\ page_fate[p] = "ok"
              /\ \E i \in DOMAIN page_results[p].body.results :
                   ~ page_results[p].body.results[i].required

\* a movie search returned although page 2 came back with a status other than 200
\* and page 4 failed in transport: the list holds the entries of pages 1 and 3 only
C21_Witness ==
    /\ search_kind = "Movie"
    /\ search_pc = "done"
    /\ page_fate = <<"ok", "status", "ok", "transport", "ok">>
    /\ Len(search_list) = 2
    /\ search_list[1].id = 11
    /\ search_list[2].id = 31

\* C22: the limiter allows at most requests_per_minute requests of a client
\* within any window (the `window` ticks that end at any moment); is_allowed
\* answers true only if fewer than requests_per_minute requests of that client
\* were allowed in the preceding window; and the list stored for a client never
\* holds more than requests_per_minute entries.
C22_AtMostLimitPerWindow ==
    /\ \A c \in ClientIps : Len(allowed_log[c]) <= requests_per_minute
    /\ decision.allowed => decision.allowed_before < requests_per_minute
    /\ \A c \in DOMAIN requests : Len(requests[c]) <= requests_per_minute

\* after the window has slid at least once, a client that already has
\* requests_per_minute requests in the current window is refused
C22_Witness ==
    /\ now >= window
    /\ decision.at = now
    /\ ~ decision.allowed
    /\ decision.status = 429
    /\ Len(allowed_log[decision.client]) = requests_per_minute
    /\ Len(requests[decision.client]) = requests_per_minute

\* C30: after a client was refused with 429 (retry_after = window), the next
\* request of that client, made at least `window` ticks after the refusal with no
\* request of the client in between, is allowed.
C30_AllowedAfterRetryAfter ==
    (/\ decision.client \in ClientIps
     /\ decision.refused_before # NoTime
     /\ decision.at - decision.refused_before >= window)
    => decision.allowed

\* a client refused at some moment comes back exactly `window` ticks later and is allowed
C30_Witness ==
    /\ decision.client \in ClientIps
    /\ decision.refused_before # NoTime
    /\ decision.at - decision.refused_before = window
    /\ decision.allowed
    /\ requests[decision.client] = <<decision.at>>

\* the probes one availability check has sent to the mirror host so far
ProbesIssued == SumLen(gets, Issuers)

\* the probes the fan-outs of the season resolvers have sent so far
FanOutProbes == SumLen([s \in Seasons |-> IF gets[s] = <<>> THEN <<>> ELSE Tail(gets[s])], Seasons)

\* C27 as stated: one series availability check issues at most
\* SeasonCeiling * EpisodeCeiling (10 * 20 = 200) probes to the mirror host, for
\* every declared season count and every combination of probe outcomes.
C27_AtMostCeilingProduct == ProbesIssued <= SeasonCeiling * EpisodeCeiling

\* C27 amended: one series availability check issues at most
\* 1 + SeasonCeiling * (1 + EpisodeCeiling) probes (1 + 10 * 21 = 211): the
\* series-level probe, one first-episode probe per season and EpisodeCeiling
\* fan-out probes per season; the fan-out probes alone number at most
\* SeasonCeiling * EpisodeCeiling.
C27_ProbeBound ==
    /\ ProbesIssued <= 1 + SeasonCeiling * (1 + EpisodeCeiling)
    /\ FanOutProbes <= SeasonCeiling * EpisodeCeiling

\* every season of a series with at least SeasonCeiling seasons passed its gate:
\* the availability check ended after the largest number of probes
C27_Witness ==
    /\ agg_pc = "done"
    /\ ProbesIssued = 1 + SeasonCeiling * (1 + EpisodeCeiling)
    /\ FanOutProbes = SeasonCeiling * EpisodeCeiling

\* C23 as stated: every error response of the API (validation failure, missing
\* required field, authentication failure, rate limit, not found, upstream error,
\* unexpected exception) has a body {error: {code, message, ...}} that carries a
\* machine-readable code.
C23_ErrorBodyForm ==
    http.status >= 400 => http.body = "error" /\ http.code # "none"

\* C24: in the /search and /details handlers an exception of the search or
\* details function that is not a StreamPortalError is answered 502
\* EXTERNAL_API_ERROR, and a StreamPortalError is answered with its own status and
\* code.  (A CancelledError is not an Exception: the handler does not answer.)
C24_HandlerExcept ==
    handler_pc = "responded" =>
        /\ det_pc = "raised" =>
             IF det_exc.class \in StreamPortalErrors
             THEN http = [status |-> det_exc.status_code, code |-> det_exc.error_code,
                          body |-> "error"]
             ELSE http = [status |-> 502, code |-> "EXTERNAL_API_ERROR", body |-> "error"]
        /\ search_pc = "raised" =>
             http = [status |-> 502, code |-> "EXTERNAL_API_ERROR", body |-> "error"]

\* a /search request whose search function raised KeyError was answered 502
C24_Witness ==
    /\ req.endpoint = "search"
    /\ search_pc = "raised"
    /\ search_exc = "KeyError"
    /\ handler_pc = "responded"
    /\ http.status = 502

\* no GET was sent to the catalog or to the mirror host
NoGets ==
    /\ catalog_gets = <<>>
    /\ page_gets = <<>>
    /\ probe_gets = <<>>
    /\ \A i \in Issuers : gets[i] = <<>>

\* the type_of_content of the body is a string other than Movie and Series
InvalidType(r) ==
    r.type_of_content.kind = "str" /\ r.type_of_content.text \notin allowed_types

\* the text_search of a /search body is, once sanitized, empty, shorter than 2 or
\* longer than 100 characters
InvalidQuery(r) ==
    /\ r.endpoint = "search"
    /\ r.text_search.kind = "str"
    /\ LET q == sanitize_input(r.text_search.text) IN q = <<>> \/ Len(q) < 2 \/ Len(q) > 100

\* the content_id of a /details body is an integer that is not positive
NonPositiveId(r) ==
    r.endpoint = "details" /\ r.content_id.kind = "int" /\ r.content_id.value <= 0

\* the content_id of a /details body is not an integer
NonIntegerId(r) == r.endpoint = "details" /\ r.content_id.kind = "str"

\* the request passed the rate limiter and its body has been looked at
BodySeen == decision.allowed /\ front_pc \notin {"received", "parsing"}

Answered400 ==
    /\ front_pc = "responded"
    /\ http = [status |-> 400, code |-> "VALIDATION_ERROR", body |-> "error"]
    /\ NoGets

C26_MissingCredentialIs401 ==
    (BodySeen /\ parse_body(req) = "ok" /\ TMDB_API_KEY = NoKey)
    => /\ front_pc \in {"handler", "responded"}
       /\ handler_pc = "idle"
       /\ front_pc = "responded" =>
            http = [status |-> 401, code |-> "AUTHENTICATION_ERROR", body |-> "error"]
       /\ NoGets

\* a valid /details request was answered 401 because the credential is missing
C26_Witness ==
    /\ TMDB_API_KEY = NoKey
    /\ req.endpoint = "details"
    /\ parse_body(req) = "ok"
    /\ front_pc = "responded"
    /\ http.status = 401

\* the request has been answered, or its task was cancelled
RequestEnded ==
    \/ front_pc = "responded"
    \/ handler_pc \in {"responded", "cancelled"}

\* C29: every details and search request eventually completes, with a result or
\* an error response (or by the cancellation of its task), provided each network
\* call eventually completes or times out: no wait of the aggregation blocks
\* forever once its probes have finished.
C29_RequestCompletes == <>RequestEnded

\* a /details request for a series was answered after season resolvers had run
C29_Witness ==
    /\ req.endpoint = "details"
    /\ det_kind = "Series"
    /\ handler_pc = "responded"
    /\ http.status = 200
    /\ \E s \in Seasons : res_pc[s] = "done"

\* call r has a GET under way: a page fetch, its catalog GET or its probe
GetUnderWay(r) ==
    \/ call_pc[r] \in {"catalog", "probe"}
    \/ \E p \in 1..Len(call_slots[r]) : call_slots[r][p] = PagePending

\* C28: the session of a search or details call is created by that call and
\* closed by it; no page fetch, catalog GET or probe of the call is under way on
\* it once it has been closed; and two concurrent calls never use the same
\* session.
C28_SessionPerRequest ==
    /\ \A r \in Calls : call_session[r] # 0 =>
         /\ sessions[call_session[r]].owner = r
         /\ sessions[call_session[r]].closed_by \in {0, r}
         /\ call_pc[r] = "done" <=> sessions[call_session[r]].state = "closed"
         /\ GetUnderWay(r) => sessions[call_session[r]].state = "open"
    /\ \A r1, r2 \in Calls :
         (r1 # r2 /\ call_session[r1] # 0 /\ call_session[r2] # 0)
         => call_session[r1] # call_session[r2]

\* a search has closed its session while the page fetches of a concurrent search
\* are still under way on another one
C28_Witness ==
    /\ call_kind[1] = "search" /\ call_kind[2] = "search"
    /\ call_pc[1] = "done"
    /\ sessions[call_session[1]].state = "closed"
    /\ call_pc[2] = "gather"
    /\ GetUnderWay(2)
    /\ sessions[call_session[2]].state = "open"

(***************************************************************************)
(* SpecSanitize: one call of sanitize_input (app/security.py) on a text    *)
(* put together from a few pieces.                                         *)
(***************************************************************************)
\* the pieces a text is made of, and how many of them
Fragments ==
    {<<"<">>, <<" ">>, <<"a">>, <<"s", "c", "r">>, <<"i", "p", "t">>,
     <<"s", "c", "r", "i", "p", "t">>, <<"j", "a", "v", "a">>}
MaxFragments == 4

RECURSIVE Texts(_)
Texts(n) ==
    IF n = 0 THEN {<<>>}
    ELSE LET shorter == Texts(n - 1)
         IN  shorter \cup {t \o f : t \in shorter, f \in Fragments}

\* `sub in s` for two strings
contains(s, sub) ==
    \E i \in 1..(Len(s) - Len(sub) + 1) : SubSeq(s, i, i + Len(sub) - 1) = sub

InitSanitize ==
    /\ series = [id |-> 0, number_of_seasons |-> 0]
    /\ NoAggCall
    /\ IdleProbe
    /\ IdleSearch
    /\ IdleDetails
    /\ FirstCall
    /\ IdleLimiter
    /\ IdleRequest
    /\ IdleSessions
    /\ IdlePool
    /\ san_pc = "called"
    /\ san_text \in Texts(MaxFragments)
    /\ san_ret = <<>>

\* the call runs to its return
Sanitize ==
    /\ san_pc = "called"
    /\ san_ret' = sanitize_input(san_text)
    /\ san_pc' = "returned"
    /\ UNCHANGED san_text
    /\ UNCHANGED outsideSanitize

NextSanitize == Sanitize

SpecSanitize == InitSanitize /\ [][NextSanitize]_vars

\* C31: whatever the text, what sanitize_input returns contains none of the
\* strings of dangerous_chars: <, >, ", ', &, script, javascript
C31_NoDangerousString ==
    san_pc = "returned" =>
        \A k \in 1..Len(dangerous_chars) : ~ contains(san_ret, dangerous_chars[k])

(***************************************************************************)
(* The order of the catalog fetch and the probes of a details request      *)
(***************************************************************************)
\* a GET to the mirror host was issued: the probe of the movie URL, or a probe of
\* the series availability check
MirrorProbed ==
    \/ probe_gets # <<>>
    \/ \E i \in Issuers : gets[i] # <<>>

\* the catalog GET of the request returned 200
CatalogReturned200 == catalog_resp.kind = "status" /\ catalog_resp.code = 200

\* C32: in a details request a probe of the mirror host has been issued only if
\* the catalog GET has returned 200; a request whose catalog GET ended with 404,
\* another status or a transport error issues no probe at all.
C32_NoProbeWithoutCatalog ==
    /\ MirrorProbed => CatalogReturned200
    /\ (catalog_resp.kind = "status" /\ catalog_resp.code # 200) => ~ MirrorProbed
    /\ catalog_resp.kind = "raise" => ~ MirrorProbed
    /\ det_pc \in {"init", "catalog"} => ~ MirrorProbed

\* a series request whose catalog GET returned 200 has sent probes and was answered
C32_Witness ==
    /\ req.endpoint = "details"
    /\ det_kind = "Series"
    /\ CatalogReturned200
    /\ ProbesIssued > 1
    /\ handler_pc = "responded"

(***************************************************************************)
(* Episode 1 of a listed season: probed by the resolver's gate             *)
(* (utils.py:55) and a second time as the first probe of its fan-out       *)
(* (utils.py:58-63).                                                       *)
(***************************************************************************)
\* C33 as stated: every season listed in valid_seasons has episode 1 in its
\* episode list, also when the two probes of a URL within one request may
\* return different outcomes.
C33_FirstEpisodeListed ==
    \A s \in DOMAIN valid_episodes : 1 \in SeqToSet(valid_episodes[s])

\* C33, amended: every season listed in valid_seasons passed the gate probe of
\* its episode 1, and its episode list holds episode 1 exactly when the fan-out's
\* own probe of episode 1 returned true; so it holds episode 1 whenever the two
\* probes of that URL agree.
C33_GatePassedAndReprobed ==
    agg_pc = "done" =>
        /\ DOMAIN valid_episodes = SeqToSet(valid_seasons)
        /\ \A s \in DOMAIN valid_episodes :
             /\ gate_ret[s] = "True"
             /\ 1 \in SeqToSet(valid_episodes[s]) <=> results[s][1] = "True"
             /\ results[s][1] = gate_ret[s] => valid_episodes[s][1] = 1

\* a listed season whose gate probe of episode 1 returned true and whose fan-out
\* probe of episode 1 did not: its list starts at episode 2
C33_Witness ==
    /\ agg_pc = "done"
    /\ \E s \in DOMAIN valid_episodes :
         /\ gate_ret[s] = "True"
         /\ results[s][1] = "False"
         /\ valid_episodes[s][1] = 2

(***************************************************************************)
(* The availability fields of the record get_series_details returns        *)
(***************************************************************************)
\* get_series_details returned a record
SeriesRecordReturned == det_kind = "Series" /\ det_pc = "returned"

\* C34: in every record get_series_details returns, is_available is true exactly
\* when valid_seasons is not empty, exactly when streaming_urls is not empty, and
\* exactly when valid_episodes is not empty; when search_series_data_async raised,
\* all three are empty and is_available is false.
C34_AvailabilityFieldsAgree ==
    SeriesRecordReturned =>
        /\ details.is_available <=> details.valid_seasons # <<>>
        /\ details.is_available <=> details.streaming_urls # <<>>
        /\ details.is_available <=> DOMAIN details.valid_episodes # {}
        /\ agg_pc = "raised" =>
             /\ ~ details.is_available
             /\ details.valid_seasons = <<>>
             /\ details.valid_episodes = <<>>
             /\ details.streaming_urls = <<>>

\* the series-level probe returned true, min() raised on a null season count, and
\* the record of the request was returned with nothing available
C34_Witness ==
    /\ SeriesRecordReturned
    /\ gate_ret[0] = "True"
    /\ agg_pc = "raised"
    /\ ~ details.is_available
    /\ http.status = 200

(***************************************************************************)
(* SpecPool: one call of check_season_episodes (app/utils.py), the         *)
(* resolver on a thread pool.  Its probes are check_url_exists; the        *)
(* futures are handled in the order as_completed yields them.              *)
(***************************************************************************)
\* ThreadPoolExecutor(max_workers=10), scaled down
max_workers == 2

\* what requests.get can end with: a status or a RequestException
RequestResponses == {Status(c) : c \in StatusCodes} \cup {Raises("RequestException")}

\* check_url_exists: `response.status_code == 200`, False on a RequestException
check_url_exists(resp) ==
    IF resp.kind = "status" /\ resp.code = 200 THEN "True" ELSE "False"

InitPool ==
    /\ series \in [id : ContentIds, number_of_seasons : {1}]
    /\ NoAggCall
    /\ IdleProbe
    /\ IdleSearch
    /\ IdleDetails
    /\ FirstCall
    /\ IdleLimiter
    /\ IdleRequest
    /\ IdleSessions
    /\ IdleSanitize
    /\ pool_pc = "gate"
    /\ pool_gate = "none"
    /\ pool_futures = <<>>
    /\ pool_yielded = <<>>
    /\ pool_valid = <<>>
    /\ pool_ret = <<>>

\* lines 30-43: the probe of the first episode returns; on True one future per
\* episode URL is submitted
PoolGate ==
    /\ pool_pc = "gate"
    /\ \E resp \in RequestResponses :
         LET ret == check_url_exists(resp)
             urls == episode_urls(series.id, 1, default_max_episodes)
         IN  /\ pool_gate' = ret
             /\ IF ret = "True"
                THEN /\ pool_pc' = "pool"
                     /\ pool_futures' = [i \in 1..Len(urls) |-> "pending"]
                ELSE /\ pool_pc' = "returned"
                     /\ UNCHANGED pool_futures
    /\ UNCHANGED <<pool_yielded, pool_valid, pool_ret>>
    /\ UNCHANGED outsidePool

\* a worker finishes the probe of future i; at most max_workers futures run at a
\* time, taken in the order they were submitted
FutureDone(i) ==
    /\ pool_pc = "pool"
    /\ i \in 1..Len(pool_futures)
    /\ pool_futures[i] = "pending"
    /\ Cardinality({j \in 1..(i - 1) : pool_futures[j] = "pending"}) < max_workers
    /\ \E resp \in RequestResponses :
         pool_futures' = [pool_futures EXCEPT ![i] = check_url_exists(resp)]
    /\ UNCHANGED <<pool_pc, pool_gate, pool_yielded, pool_valid, pool_ret>>
    /\ UNCHANGED outsidePool

\* lines 44-47: as_completed yields a finished future; its episode number is
\* appended when its result is true
FutureYielded(i) ==
    /\ pool_pc = "pool"
    /\ i \in 1..Len(pool_futures)
    /\ pool_futures[i] # "pending"
    /\ i \notin {pool_yielded[k] : k \in 1..Len(pool_yielded)}
    /\ pool_yielded' = Append(pool_yielded, i)
    /\ pool_valid' = IF pool_futures[i] = "True" THEN Append(pool_valid, i) ELSE pool_valid
    /\ UNCHANGED <<pool_pc, pool_gate, pool_futures, pool_ret>>
    /\ UNCHANGED outsidePool

\* line 48: every future was yielded; return sorted(valid_episodes)
PoolReturn ==
    /\ pool_pc = "pool"
    /\ Len(pool_yielded) = Len(pool_futures)
    /\ pool_ret' = sorted(pool_valid)
    /\ pool_pc' = "returned"
    /\ UNCHANGED <<pool_gate, pool_futures, pool_yielded, pool_valid>>
    /\ UNCHANGED outsidePool

NextPool ==
    \/ PoolGate
    \/ \E i \in 1..EpisodeCeiling : FutureDone(i)
    \/ \E i \in 1..EpisodeCeiling : FutureYielded(i)
    \/ PoolReturn

SpecPool == InitPool /\ [][NextPool]_vars

\* what check_season_episodes_async returns when its first-episode probe returned
\* `gate` and the probes of its fan-out returned `res`, in launch order
async_resolver_result(gate, res) ==
    IF first_episode_absent(gate) THEN <<>> ELSE resolver_return(res)

\* C35: for the same probe outcomes, check_season_episodes, which collects the
\* episodes in the order the futures complete, returns the episode list
\* check_season_episodes_async returns, whatever that order.
C35_ResolversAgree ==
    pool_pc = "returned" => pool_ret = async_resolver_result(pool_gate, pool_futures)

\* the futures were yielded out of launch order, the episodes were appended out of
\* order, and two or more episodes are returned
C35_Witness ==
    /\ pool_pc = "returned"
    /\ Len(pool_ret) >= 2
    /\ ~ StrictlyAscending(pool_yielded)
    /\ ~ StrictlyAscending(pool_valid)

(***************************************************************************)
(* A search page fetched with status 200 that holds an entry without a     *)
(* field the loop indexes                                                  *)
(***************************************************************************)
\* page p was fetched with status 200 and one of its entries lacks a required field
MalformedPage(p) ==
    /\ page_fate[p] = "ok"
    /\ \E i \in DOMAIN page_results[p].body.results : ~ page_results[p].body.results[i].required

\* C36: a search page that is fetched with status 200 but holds an entry lacking
\* a required field affects at most that page: the search does not raise, and
\* the entries of every other page are in the list it returns.
C36_MalformedEntryIsLocal ==
    search_pc \in {"done", "raised"} =>
        \A p \in DOMAIN page_fate :
            MalformedPage(p) =>
                /\ search_pc = "done"
                /\ search_exc = "none"
                /\ \A q \in DOMAIN page_fate \ {p} :
                     (has_results(page_results[q]) /\ ~ MalformedPage(q)) =>
                         \A i \in DOMAIN page_results[q].body.results :
                             list_entry(search_kind, page_results[q].body.results[i])
                                 \in SeqToSet(search_list)

(***************************************************************************)
(* What a call of is_allowed leaves alone                                  *)
(***************************************************************************)
\* the timestamps RateLimiter.requests holds for a client, none for an unknown key
Stored(reqs, c) == IF c \in DOMAIN reqs THEN reqs[c] ELSE <<>>

\* how often the time t is in a list of timestamps
Occurrences(list, t) == Cardinality({i \in DOMAIN list : list[i] = t})

\* C37: a refused request consumes no quota and clients are independent: when
\* is_allowed answers false for a client, the list stored for that client gains
\* no timestamp (it holds only timestamps it held before the call), and a call
\* for one client changes neither the key, nor the stored timestamps, nor the
\* answer is_allowed would give now or later, of any other client.
C37_RefusalFreeAndClientsIndependent ==
    [][\A c \in ClientIps :
         RateLimit(c) =>
             /\ ~ decision'.allowed =>
                  /\ Len(Stored(requests', c)) <= Len(Stored(requests, c))
                  /\ \A t \in 0..MaxTime :
                       Occurrences(Stored(requests', c), t) <= Occurrences(Stored(requests, c), t)
             /\ \A o \in ClientIps \ {c} :
                  /\ o \in DOMAIN requests' <=> o \in DOMAIN requests
                  /\ Stored(requests', o) = Stored(requests, o)
                  /\ \A t \in now..MaxTime :
                       is_allowed(requests', o, t).allowed = is_allowed(requests, o, t).allowed
      ]_vars

\* a client has just been refused at its limit while the other client has a
\* request on record
C37_Witness ==
    /\ decision.client = "a"
    /\ decision.at = now
    /\ ~ decision.allowed
    /\ Len(Stored(requests, "a")) = requests_per_minute
    /\ Stored(requests, "b") # <<>>
    /\ refused_at["a"] = now

====
